---- MODULE Spec2Model ----
(***************************************************************************)
(* Paragraph extraction and numbering resolution of the issues report      *)
(* (src/src/wordUtils.ts and the numbering utilities, src/unnamed/part_008)*)
(*                                                                         *)
(* Strings the code inspects character by character (labels, templates,    *)
(* level attributes, run texts) are sequences of one-character strings.    *)
(* Identifiers that are only compared or looked up (list ids, style ids,   *)
(* tag names, format kinds) are plain strings, "" standing for an absent   *)
(* or empty attribute.  JavaScript numbers are integers plus NaN.          *)
(***************************************************************************)
EXTENDS Integers, Sequences, FiniteSets, TLC

VARIABLES
  criteria,               \* extractParagraphs' criteria argument
  numberingXml,           \* TRUE iff word/numbering.xml exists in the package
  stylesXml,              \* TRUE iff word/styles.xml exists in the package
  pc,                     \* position in extractParagraphs' body loop
  nParas,                 \* paragraphs of allParagaphs taken so far
  paragraphElement,       \* the loop variable of the body loop
  currentSection,
  currentPage,
  heap,                   \* the arrays allocated so far, by reference
  previousNumberingInfo,
  numberingInfo,          \* the loop body's local
  interestingParagraphs,
  lastProduced,           \* history: last label a tracker produced, and its section
  lastTuple,              \* history: counter tuple behind the last label, per array
  call                    \* the call in progress of the single-function specifications;
                          \* in a whole extraction, the header and footer parts
                          \* and the position of the second pass

bodyVars == <<criteria, numberingXml, stylesXml, pc, nParas, paragraphElement,
              currentSection, currentPage, previousNumberingInfo, numberingInfo,
              interestingParagraphs, lastProduced, lastTuple>>

vars == <<bodyVars, heap, call>>

(***************************************************************************)
(* Bounds of the model.                                                    *)
(***************************************************************************)
MaxParagraphs == 3
MaxArrayLen == 3
MaxCounter == 2
NumStyles == 3
MaxListSteps == 4
MaxTemplateLen == 3
NumFiles == 2
MaxIds == 2
MaxRunChildren == 3
MaxChildren == 2
MaxBatch == 2
MaxRows == 2
MaxNumber == 4000
MaxTokenLen == 3
MaxBody == 3

(***************************************************************************)
(* JavaScript values.                                                      *)
(***************************************************************************)
\* NaN: what undefined++ and a failed parseInt give.  It is below every
\* number the model computes, so that NaN > 0, NaN >= v and NaN < n are all
\* false as in JavaScript wherever the model compares it.
NaN == -1000
\* An array index that was never assigned (reads as undefined).
Hole == -1001

Undefined == <<"undefined">>
Null == <<"null">>

\* A string is truthy unless it is undefined, null or empty.
Truthy(s) == s # Undefined /\ s # Null /\ s # <<>>

Min(a, b) == IF a < b THEN a ELSE b
Max(a, b) == IF a > b THEN a ELSE b

DigitChar(d) == <<"0", "1", "2", "3", "4", "5", "6", "7", "8", "9">>[d + 1]

RECURSIVE NatToString(_)
NatToString(n) ==
  IF n < 10 THEN <<DigitChar(n)>>
  ELSE NatToString(n \div 10) \o <<DigitChar(n % 10)>>

\* Number.prototype.toString() / template-literal conversion
NumToString(n) ==
  IF n = NaN THEN <<"N", "a", "N">>
  ELSE IF n < 0 THEN <<"-">> \o NatToString(-n)
  ELSE NatToString(n)

IsDigit(c) == c \in {"0", "1", "2", "3", "4", "5", "6", "7", "8", "9"}
DigitVal(c) == CHOOSE d \in 0..9 : DigitChar(d) = c
IsSpace(c) == c \in {" ", "\t", "\n", "\r"}

RECURSIVE SkipSpace(_)
SkipSpace(s) == IF s # <<>> /\ IsSpace(s[1]) THEN SkipSpace(Tail(s)) ELSE s

RECURSIVE DigitsValue(_, _)
DigitsValue(s, acc) ==
  IF s # <<>> /\ IsDigit(s[1]) THEN DigitsValue(Tail(s), acc * 10 + DigitVal(s[1]))
  ELSE acc

\* parseInt(s, 10): leading white space, an optional sign, then the longest
\* run of digits; NaN when there is no digit.
ParseInt(s) ==
  LET t == SkipSpace(s)
      neg == t # <<>> /\ t[1] = "-"
      u == IF t # <<>> /\ t[1] \in {"-", "+"} THEN Tail(t) ELSE t
  IN IF u = <<>> \/ ~IsDigit(u[1]) THEN NaN
     ELSE IF neg THEN -DigitsValue(u, 0) ELSE DigitsValue(u, 0)

\* String.prototype.trim()
RECURSIVE TrimEnd(_)
TrimEnd(s) ==
  IF s # <<>> /\ IsSpace(s[Len(s)]) THEN TrimEnd(SubSeq(s, 1, Len(s) - 1)) ELSE s
Trim(s) == TrimEnd(SkipSpace(s))

\* String.prototype.includes(c) for a one-character c
Includes(s, c) == \E i \in 1..Len(s) : s[i] = c

\* Array.prototype.join(sep): a hole or undefined joins as the empty string
RECURSIVE Join(_, _)
Join(parts, sep) ==
  IF parts = <<>> THEN <<>>
  ELSE LET h == IF parts[1] = Undefined THEN <<>> ELSE parts[1]
       IN IF Len(parts) = 1 THEN h ELSE h \o sep \o Join(Tail(parts), sep)

\* String.prototype.replace(new RegExp(pat, 'g'), rep) for a literal pat
RECURSIVE ReplaceAll(_, _, _)
ReplaceAll(s, pat, rep) ==
  IF Len(s) < Len(pat) THEN s
  ELSE IF SubSeq(s, 1, Len(pat)) = pat
       THEN rep \o ReplaceAll(SubSeq(s, Len(pat) + 1, Len(s)), pat, rep)
       ELSE <<s[1]>> \o ReplaceAll(Tail(s), pat, rep)

\* a[i] for an array a (index 0 first) and any number i
ArrGet(a, i) == IF i >= 0 /\ i < Len(a) THEN a[i + 1] ELSE Hole

\* a[i] = v: an index at or past the end grows the array, leaving holes; a
\* negative or NaN index sets a property and leaves the elements alone.
ArrSet(a, i, v) ==
  IF i < 0 THEN a
  ELSE IF i < Len(a) THEN [a EXCEPT ![i + 1] = v]
  ELSE a \o [k \in 1..(i - Len(a)) |-> Hole] \o <<v>>

\* Array.prototype.slice(0, end)
Slice0(a, end) ==
  LET e == IF end = NaN THEN 0
           ELSE IF end < 0 THEN Max(Len(a) + end, 0)
           ELSE Min(end, Len(a))
  IN SubSeq(a, 1, e)

(***************************************************************************)
(* Number formats (part_008, lines 10-214).                                *)
(***************************************************************************)
LowerAlphabet == <<"a", "b", "c", "d", "e", "f", "g", "h", "i", "j", "k", "l", "m",
                   "n", "o", "p", "q", "r", "s", "t", "u", "v", "w", "x", "y", "z">>
UpperAlphabet == <<"A", "B", "C", "D", "E", "F", "G", "H", "I", "J", "K", "L", "M",
                   "N", "O", "P", "Q", "R", "S", "T", "U", "V", "W", "X", "Y", "Z">>

RECURSIVE toLowerLetter(_)
toLowerLetter(num) ==
  IF num > 0
  THEN toLowerLetter((num - 1) \div 26) \o <<LowerAlphabet[((num - 1) % 26) + 1]>>
  ELSE <<>>

RECURSIVE toUpperLetter(_)
toUpperLetter(num) ==
  IF num > 0
  THEN toUpperLetter((num - 1) \div 26) \o <<UpperAlphabet[((num - 1) % 26) + 1]>>
  ELSE <<>>

romanValues == <<1, 4, 5, 9, 10, 40, 50, 90, 100, 400, 500, 900, 1000>>
lowerRomanNumerals == << <<"i">>, <<"i", "v">>, <<"v">>, <<"i", "x">>, <<"x">>,
                         <<"x", "l">>, <<"l">>, <<"x", "c">>, <<"c">>, <<"c", "d">>,
                         <<"d">>, <<"c", "m">>, <<"m">> >>
upperRomanNumerals == << <<"I">>, <<"I", "V">>, <<"V">>, <<"I", "X">>, <<"X">>,
                         <<"X", "L">>, <<"L">>, <<"X", "C">>, <<"C">>, <<"C", "D">>,
                         <<"D">>, <<"C", "M">>, <<"M">> >>

\* the for/while pair of toLowerRoman and toUpperRoman, from index i down
RECURSIVE RomanFrom(_, _, _)
RomanFrom(num, i, numerals) ==
  IF i < 1 THEN <<>>
  ELSE IF num >= romanValues[i]
       THEN numerals[i] \o RomanFrom(num - romanValues[i], i, numerals)
       ELSE RomanFrom(num, i - 1, numerals)

toLowerRoman(num) == RomanFrom(num, Len(romanValues), lowerRomanNumerals)
toUpperRoman(num) == RomanFrom(num, Len(romanValues), upperRomanNumerals)

\* the remainder operator of JavaScript: the sign of the dividend
JsRem(a, b) == IF a >= 0 THEN a % b ELSE -((-a) % b)

\* lines 77-81: element i of the suffix array, undefined outside it
ordinalSuffix == << <<"t", "h">>, <<"s", "t">>, <<"n", "d">>, <<"r", "d">> >>
SuffixAt(i) == IF i \in 0..3 THEN ordinalSuffix[i + 1] ELSE Undefined

\* toOrdinal with the suffix of the last digit whatever the tens
toOrdinalLastDigit(num) ==
  LET s == SuffixAt(JsRem(num, 10))
  IN NumToString(num) \o (IF s # Undefined THEN s ELSE SuffixAt(0))

toOrdinal(num) ==
  LET value == JsRem(num, 100)
      first == SuffixAt(JsRem(value - 20, 10))
      second == SuffixAt(value)
  IN NumToString(num)
     \o (IF first # Undefined THEN first
         ELSE IF second # Undefined THEN second
         ELSE SuffixAt(0))

\* lines 88-91: the tables of toCardinalText, from index 0
cardinalOnes ==
  << <<>>, <<"o", "n", "e">>, <<"t", "w", "o">>,
     <<"t", "h", "r", "e", "e">>, <<"f", "o", "u", "r">>,
     <<"f", "i", "v", "e">>, <<"s", "i", "x">>, <<"s", "e", "v", "e", "n">>,
     <<"e", "i", "g", "h", "t">>, <<"n", "i", "n", "e">> >>
cardinalTeens ==
  << <<"t", "e", "n">>, <<"e", "l", "e", "v", "e", "n">>,
     <<"t", "w", "e", "l", "v", "e">>,
     <<"t", "h", "i", "r", "t", "e", "e", "n">>,
     <<"f", "o", "u", "r", "t", "e", "e", "n">>,
     <<"f", "i", "f", "t", "e", "e", "n">>,
     <<"s", "i", "x", "t", "e", "e", "n">>,
     <<"s", "e", "v", "e", "n", "t", "e", "e", "n">>,
     <<"e", "i", "g", "h", "t", "e", "e", "n">>,
     <<"n", "i", "n", "e", "t", "e", "e", "n">> >>
cardinalTens ==
  << <<>>, <<>>, <<"t", "w", "e", "n", "t", "y">>,
     <<"t", "h", "i", "r", "t", "y">>, <<"f", "o", "r", "t", "y">>,
     <<"f", "i", "f", "t", "y">>, <<"s", "i", "x", "t", "y">>,
     <<"s", "e", "v", "e", "n", "t", "y">>,
     <<"e", "i", "g", "h", "t", "y">>, <<"n", "i", "n", "e", "t", "y">> >>
cardinalHundreds ==
  << <<>>, <<"o", "n", "e", " ", "h", "u", "n", "d", "r", "e", "d">>,
     <<"t", "w", "o", " ", "h", "u", "n", "d", "r", "e", "d">>,
     <<"t", "h", "r", "e", "e", " ", "h", "u", "n", "d", "r", "e", "d">>,
     <<"f", "o", "u", "r", " ", "h", "u", "n", "d", "r", "e", "d">>,
     <<"f", "i", "v", "e", " ", "h", "u", "n", "d", "r", "e", "d">>,
     <<"s", "i", "x", " ", "h", "u", "n", "d", "r", "e", "d">>,
     <<"s", "e", "v", "e", "n", " ", "h", "u", "n", "d", "r", "e", "d">>,
     <<"e", "i", "g", "h", "t", " ", "h", "u", "n", "d", "r", "e", "d">>,
     <<"n", "i", "n", "e", " ", "h", "u", "n", "d", "r", "e", "d">> >>

\* lines 97-113: num in 1..999
CardinalBelowThousand(num) ==
  LET h == IF num >= 100
           THEN cardinalHundreds[(num \div 100) + 1]
                \o (IF num % 100 > 0 THEN <<" ">> ELSE <<>>)
           ELSE <<>>
      n == IF num >= 100 THEN num % 100 ELSE num
  IN h \o (IF n >= 20
           THEN cardinalTens[(n \div 10) + 1]
                \o (IF n % 10 > 0 THEN <<"-">> \o cardinalOnes[(n % 10) + 1] ELSE <<>>)
           ELSE IF n >= 10 THEN cardinalTeens[n - 10 + 1]
           ELSE IF n > 0 THEN cardinalOnes[n + 1]
           ELSE <<>>)

\* lines 93-95 and 114
toCardinalText(num) ==
  IF num = 0 THEN <<"z", "e", "r", "o">>
  ELSE IF num < 0
       THEN <<"n", "e", "g", "a", "t", "i", "v", "e", " ">>
            \o (IF -num >= 1000 THEN NumToString(-num) ELSE CardinalBelowThousand(-num))
  ELSE IF num >= 1000 THEN NumToString(num)
  ELSE CardinalBelowThousand(num)

\* String.prototype.endsWith and slice(0, -k)
EndsWith(s, e) == Len(s) >= Len(e) /\ SubSeq(s, Len(s) - Len(e) + 1, Len(s)) = e
DropLast(s, k) == SubSeq(s, 1, Max(Len(s) - k, 0))

ordinalWords ==
  << <<>>, <<"f", "i", "r", "s", "t">>, <<"s", "e", "c", "o", "n", "d">>,
     <<"t", "h", "i", "r", "d">>, <<"f", "o", "u", "r", "t", "h">>,
     <<"f", "i", "f", "t", "h">>, <<"s", "i", "x", "t", "h">>,
     <<"s", "e", "v", "e", "n", "t", "h">>,
     <<"e", "i", "g", "h", "t", "h">>, <<"n", "i", "n", "t", "h">>,
     <<"t", "e", "n", "t", "h">>,
     <<"e", "l", "e", "v", "e", "n", "t", "h">>,
     <<"t", "w", "e", "l", "f", "t", "h">>,
     <<"t", "h", "i", "r", "t", "e", "e", "n", "t", "h">>,
     <<"f", "o", "u", "r", "t", "e", "e", "n", "t", "h">>,
     <<"f", "i", "f", "t", "e", "e", "n", "t", "h">>,
     <<"s", "i", "x", "t", "e", "e", "n", "t", "h">>,
     <<"s", "e", "v", "e", "n", "t", "e", "e", "n", "t", "h">>,
     <<"e", "i", "g", "h", "t", "e", "e", "n", "t", "h">>,
     <<"n", "i", "n", "e", "t", "e", "e", "n", "t", "h">>,
     <<"t", "w", "e", "n", "t", "i", "e", "t", "h">> >>

\* lines 132-150: the ordinal made of the cardinal text by its ending
OrdinalOfCardinal(cardinalText) ==
  IF EndsWith(cardinalText, <<"o", "n", "e">>)
  THEN DropLast(cardinalText, 3) \o <<"f", "i", "r", "s", "t">>
  ELSE IF EndsWith(cardinalText, <<"t", "w", "o">>)
  THEN DropLast(cardinalText, 3) \o <<"s", "e", "c", "o", "n", "d">>
  ELSE IF EndsWith(cardinalText, <<"t", "h", "r", "e", "e">>)
  THEN DropLast(cardinalText, 5) \o <<"t", "h", "i", "r", "d">>
  ELSE IF EndsWith(cardinalText, <<"f", "i", "v", "e">>)
  THEN DropLast(cardinalText, 4) \o <<"f", "i", "f", "t", "h">>
  ELSE IF EndsWith(cardinalText, <<"e", "i", "g", "h", "t">>)
  THEN DropLast(cardinalText, 5) \o <<"e", "i", "g", "h", "t", "h">>
  ELSE IF EndsWith(cardinalText, <<"n", "i", "n", "e">>)
  THEN DropLast(cardinalText, 4) \o <<"n", "i", "n", "t", "h">>
  ELSE IF EndsWith(cardinalText, <<"t", "w", "e", "l", "v", "e">>)
  THEN DropLast(cardinalText, 6) \o <<"t", "w", "e", "l", "f", "t", "h">>
  ELSE IF EndsWith(cardinalText, <<"y">>)
  THEN DropLast(cardinalText, 1) \o <<"i", "e", "t", "h">>
  ELSE cardinalText \o <<"t", "h">>

\* lines 119-150
toOrdinalText(num) ==
  IF num <= 20 /\ num > 0 THEN ordinalWords[num + 1]
  ELSE OrdinalOfCardinal(toCardinalText(num))

toNumberInDash(num) == <<"-", " ">> \o NumToString(num) \o <<" ", "-">>

\* the bullet glyph, one element standing for the literal of line 182
BulletGlyph == <<"BULLET">>

formatNumber(num, format) ==
  CASE format = "decimal" -> NumToString(num)
    [] format = "lowerLetter" -> toLowerLetter(num)
    [] format = "upperLetter" -> toUpperLetter(num)
    [] format = "lowerRoman" -> toLowerRoman(num)
    [] format = "upperRoman" -> toUpperRoman(num)
    [] format = "bullet" -> BulletGlyph
    [] format = "ordinal" -> toOrdinal(num)
    [] format = "cardinalText" -> toCardinalText(num)
    [] format = "ordinalText" -> toOrdinalText(num)
    [] format = "numberInDash" -> toNumberInDash(num)
    [] OTHER -> NumToString(num)

\* the loop of processLvlText from placeholder %(i+1) on
RECURSIVE ReplacePlaceholders(_, _, _)
ReplacePlaceholders(result, formattedNumbers, i) ==
  IF i >= Len(formattedNumbers) THEN result
  ELSE ReplacePlaceholders(
         ReplaceAll(result, <<"%">> \o NumToString(i + 1),
                    IF formattedNumbers[i + 1] = Undefined
                    THEN <<"u", "n", "d", "e", "f", "i", "n", "e", "d">>
                    ELSE formattedNumbers[i + 1]),
         formattedNumbers, i + 1)

processLvlText(template, formattedNumbers) ==
  IF template = <<>> THEN Join(formattedNumbers, <<".">>)
  ELSE ReplacePlaceholders(template, formattedNumbers, 0)

(***************************************************************************)
(* Counters (part_008, lines 345-361).  An array lives in the heap and is  *)
(* passed by reference; updateCounters writes into the array it is given.  *)
(***************************************************************************)
initializeCounters(maxLevels) == [k \in 1..maxLevels |-> 0]

\* counters[ilvl]++ : undefined and NaN increment to NaN
PostIncrement(a, i) ==
  LET old == ArrGet(a, i)
  IN ArrSet(a, i, IF old = Hole \/ old = NaN THEN NaN ELSE old + 1)

\* the elements of the array after updateCounters(counters, ilvl)
updateCounters(counters, ilvl) ==
  LET inc == PostIncrement(counters, ilvl)
  IN [k \in 1..Len(inc) |->
        IF ilvl # NaN /\ k - 1 >= ilvl + 1 THEN 0 ELSE inc[k]]

(***************************************************************************)
(* The parts of the package the numbering needs: the maps that             *)
(* buildNumberingMaps and buildStyleMaps return for the document at hand.  *)
(* List ids "1" and "2" share abstract definition "0"; list id "4" names   *)
(* an abstract definition that does not exist.                             *)
(***************************************************************************)
DocNumIdToAbstractNumId ==
  [n \in {"1", "2", "3", "4"} |->
     CASE n = "1" -> "0" [] n = "2" -> "0" [] n = "3" -> "1" [] n = "4" -> "9"]

DocAbstractNumIdToFormat ==
  [a \in {"0", "1"} |->
     IF a = "0"
     THEN << [numFmt |-> "decimal", lvlText |-> <<"%", "1", ".">>],
             [numFmt |-> "lowerLetter", lvlText |-> <<"%", "1", ".", "%", "2">>] >>
     ELSE << [numFmt |-> "upperRoman", lvlText |-> <<>>],
             [numFmt |-> "", lvlText |-> <<>>] >>]

EmptyMap == [n \in {} |-> ""]

\* a style's numbering and a paragraph's w:numPr are sequences of at most
\* one record: <<>> is "no such element"
DocStyles ==
  [s \in {"Heading1", "Heading2", "ListPara", "LoopA", "LoopB", "Orphan"} |->
     CASE s = "Heading1" ->
            [id |-> s, basedOn |-> "",
             numbering |-> << [numId |-> "1", ilvl |-> <<"0">>] >>]
       [] s = "Heading2" -> [id |-> s, basedOn |-> "Heading1", numbering |-> <<>>]
       [] s = "ListPara" ->
            [id |-> s, basedOn |-> "",
             numbering |-> << [numId |-> "3", ilvl |-> <<>>] >>]
       [] s = "LoopA" -> [id |-> s, basedOn |-> "LoopB", numbering |-> <<>>]
       [] s = "LoopB" -> [id |-> s, basedOn |-> "LoopA", numbering |-> <<>>]
       [] s = "Orphan" -> [id |-> s, basedOn |-> "Missing", numbering |-> <<>>]]

(***************************************************************************)
(* Style hierarchy (part_008, lines 318-338).                              *)
(***************************************************************************)
\* ResolveLoop with a while condition that does not consult the visited set
ResolveLoopNoVisited(currentStyleId, visited, styles) ==
  IF currentStyleId # ""
  THEN IF currentStyleId \notin DOMAIN styles
       THEN [kind |-> "break", visited |-> visited \cup {currentStyleId},
             next |-> currentStyleId, ret |-> <<>>]
       ELSE IF styles[currentStyleId].numbering # <<>>
            THEN [kind |-> "return", visited |-> visited \cup {currentStyleId},
                  next |-> currentStyleId, ret |-> styles[currentStyleId].numbering]
            ELSE [kind |-> "continue", visited |-> visited \cup {currentStyleId},
                  next |-> styles[currentStyleId].basedOn, ret |-> <<>>]
  ELSE [kind |-> "exit", visited |-> visited, next |-> currentStyleId, ret |-> <<>>]

\* ResolveLoop that looks at the start style only and never at a parent
ResolveLoopOwnOnly(currentStyleId, visited, styles) ==
  IF currentStyleId # "" /\ currentStyleId \notin visited
  THEN IF currentStyleId \notin DOMAIN styles
       THEN [kind |-> "break", visited |-> visited \cup {currentStyleId},
             next |-> currentStyleId, ret |-> <<>>]
       ELSE IF styles[currentStyleId].numbering # <<>>
            THEN [kind |-> "return", visited |-> visited \cup {currentStyleId},
                  next |-> currentStyleId, ret |-> styles[currentStyleId].numbering]
            ELSE [kind |-> "break", visited |-> visited \cup {currentStyleId},
                  next |-> currentStyleId, ret |-> <<>>]
  ELSE [kind |-> "exit", visited |-> visited, next |-> currentStyleId, ret |-> <<>>]

\* One evaluation of the while condition and, when it holds, of the loop
\* body: what the loop does next.
ResolveLoop(currentStyleId, visited, styles) ==
  IF currentStyleId # "" /\ currentStyleId \notin visited
  THEN IF currentStyleId \notin DOMAIN styles
       THEN [kind |-> "break", visited |-> visited \cup {currentStyleId},
             next |-> currentStyleId, ret |-> <<>>]
       ELSE IF styles[currentStyleId].numbering # <<>>
            THEN [kind |-> "return", visited |-> visited \cup {currentStyleId},
                  next |-> currentStyleId, ret |-> styles[currentStyleId].numbering]
            ELSE [kind |-> "continue", visited |-> visited \cup {currentStyleId},
                  next |-> styles[currentStyleId].basedOn, ret |-> <<>>]
  ELSE [kind |-> "exit", visited |-> visited, next |-> currentStyleId, ret |-> <<>>]

RECURSIVE ResolveFrom(_, _, _)
ResolveFrom(currentStyleId, visited, styles) ==
  LET r == ResolveLoop(currentStyleId, visited, styles)
  IN IF r.kind = "continue" THEN ResolveFrom(r.next, r.visited, styles) ELSE r.ret

\* <<>> is undefined, <<n>> the numbering record n
resolveStyleNumbering(styleId, styles) == ResolveFrom(styleId, {}, styles)

(***************************************************************************)
(* Trackers (part_008, lines 371-466).  Each returns the label (or         *)
(* Undefined) and the heap as the call leaves it.                          *)
(***************************************************************************)
\* counters.slice(0, level + 1).map(...): holes stay holes
FormattedNumbers(arr, level, formats) ==
  LET sl == Slice0(arr, IF level = NaN THEN NaN ELSE level + 1)
  IN [k \in 1..Len(sl) |->
        IF sl[k] = Hole THEN Undefined
        ELSE formatNumber(sl[k],
               IF k <= Len(formats) /\ formats[k].numFmt # ""
               THEN formats[k].numFmt ELSE "decimal")]

\* trackNumbering advancing the counter before it looks the list up
trackNumberingEagerUpdate(p, numIdToAbstractNumId, abstractNumIdToFormat, h, counters) ==
  IF p.numPr = <<>> THEN [ret |-> Undefined, heap |-> h]
  ELSE LET numId == p.numPr[1].numId
           ilvl == p.numPr[1].ilvl
       IN IF numId = "" \/ ilvl = <<>> THEN [ret |-> Undefined, heap |-> h]
          ELSE LET currentLevel == ParseInt(ilvl)
                   arr == updateCounters(h[counters], currentLevel)
                   h2 == [h EXCEPT ![counters] = arr]
               IN IF numId \notin DOMAIN numIdToAbstractNumId
                  THEN [ret |-> Undefined, heap |-> h2]
                  ELSE IF numIdToAbstractNumId[numId] \notin DOMAIN abstractNumIdToFormat
                       THEN [ret |-> Undefined, heap |-> h2]
                  ELSE LET formats == abstractNumIdToFormat[numIdToAbstractNumId[numId]]
                           formattedNumbers == FormattedNumbers(arr, currentLevel, formats)
                           hasFormat == currentLevel >= 0 /\ currentLevel < Len(formats)
                       IN [ret |-> IF hasFormat /\ formats[currentLevel + 1].lvlText # <<>>
                                   THEN processLvlText(formats[currentLevel + 1].lvlText,
                                                       formattedNumbers)
                                   ELSE Join(formattedNumbers, <<".">>),
                           heap |-> h2]

trackNumbering(p, numIdToAbstractNumId, abstractNumIdToFormat, h, counters) ==
  IF p.numPr = <<>> THEN [ret |-> Undefined, heap |-> h]
  ELSE LET numId == p.numPr[1].numId
           ilvl == p.numPr[1].ilvl
       IN IF numId = "" \/ ilvl = <<>> THEN [ret |-> Undefined, heap |-> h]
          ELSE IF numId \notin DOMAIN numIdToAbstractNumId
               THEN [ret |-> Undefined, heap |-> h]
          ELSE IF numIdToAbstractNumId[numId] \notin DOMAIN abstractNumIdToFormat
               THEN [ret |-> Undefined, heap |-> h]
          ELSE LET formats == abstractNumIdToFormat[numIdToAbstractNumId[numId]]
                   currentLevel == ParseInt(ilvl)
                   arr == updateCounters(h[counters], currentLevel)
                   formattedNumbers == FormattedNumbers(arr, currentLevel, formats)
                   hasFormat == currentLevel >= 0 /\ currentLevel < Len(formats)
               IN [ret |-> IF hasFormat /\ formats[currentLevel + 1].lvlText # <<>>
                           THEN processLvlText(formats[currentLevel + 1].lvlText,
                                               formattedNumbers)
                           ELSE Join(formattedNumbers, <<".">>),
                   heap |-> [h EXCEPT ![counters] = arr]]

\* "" when the paragraph names no style
extractParagraphStyle(p) == p.pStyle

trackStyleNumbering(p, styles, numIdToAbstractNumId, abstractNumIdToFormat, h, counters) ==
  LET styleId == extractParagraphStyle(p)
      styleNumbering == resolveStyleNumbering(styleId, styles)
  IN IF styleId = "" THEN [ret |-> Undefined, heap |-> h]
     ELSE IF styleNumbering = <<>> \/ styleNumbering[1].numId = ""
          THEN [ret |-> Undefined, heap |-> h]
     ELSE IF styleNumbering[1].numId \notin DOMAIN numIdToAbstractNumId
          THEN [ret |-> Undefined, heap |-> h]
     ELSE IF numIdToAbstractNumId[styleNumbering[1].numId]
               \notin DOMAIN abstractNumIdToFormat
          THEN [ret |-> Undefined, heap |-> h]
     ELSE LET formats == abstractNumIdToFormat[numIdToAbstractNumId[styleNumbering[1].numId]]
              ilvl == ParseInt(IF styleNumbering[1].ilvl = <<>> THEN <<"0">>
                               ELSE styleNumbering[1].ilvl)
              arr == updateCounters(h[counters], ilvl)
              formattedNumbers == FormattedNumbers(arr, ilvl, formats)
              hasFormat == ilvl >= 0 /\ ilvl < Len(formats)
          IN [ret |-> IF hasFormat /\ formats[ilvl + 1].lvlText # <<>>
                      THEN processLvlText(formats[ilvl + 1].lvlText, formattedNumbers)
                      ELSE Join(formattedNumbers, <<".">>),
              heap |-> [h EXCEPT ![counters] = arr]]

(***************************************************************************)
(* Paragraphs.  A paragraph element is                                     *)
(*   tags   the names of the marker elements among its descendants,        *)
(*   numPr  its w:numPr elements' first one, <<>> when it has none,        *)
(*   pStyle the w:val of its w:pStyle, "" when it has none,                *)
(*   runs   its w:r descendants, each with the texts of its w:t and of its *)
(*          w:delText elements in document order.                          *)
(***************************************************************************)
Para(tags, numPr, pStyle, runs) ==
  [tags |-> tags, numPr |-> numPr, pStyle |-> pStyle, runs |-> runs]

NumPr(numId, ilvl) == << [numId |-> numId, ilvl |-> ilvl] >>

Run(ts, dels) == [t |-> ts, delText |-> dels]

HasTag(p, tag) == tag \in p.tags

(***************************************************************************)
(* Classification (wordUtils.ts, lines 367-386 and 869-896).               *)
(***************************************************************************)
\* lines 374-378: the text of each run is that of its first w:t
SquareBrackets(paragraph) ==
  LET textRuns == [k \in 1..Len(paragraph.runs) |->
                     IF paragraph.runs[k].t # <<>> THEN paragraph.runs[k].t[1] ELSE <<>>]
  IN \E k \in 1..Len(textRuns) :
       Includes(textRuns[k], "[") \/ Includes(textRuns[k], "]")

paragraphIsInteresting(paragraph, crit) ==
  LET redline == \/ HasTag(paragraph, "w:del")
                 \/ HasTag(paragraph, "w:ins")
                 \/ HasTag(paragraph, "w:moveFrom")
                 \/ HasTag(paragraph, "w:moveTo")
      comments == HasTag(paragraph, "w:commentRangeStart")
      footnotes == HasTag(paragraph, "w:footnoteReference")
      endnotes == HasTag(paragraph, "w:endnoteReference")
      highlight == HasTag(paragraph, "w:highlight")
      squareBrackets == SquareBrackets(paragraph)
  IN \/ (crit.redline /\ redline)
     \/ (crit.comments /\ comments)
     \/ (crit.footnotes /\ footnotes)
     \/ (crit.endnotes /\ endnotes)
     \/ (crit.highlight /\ highlight)
     \/ (crit.squareBrackets /\ squareBrackets)

paragraphHasTextContent(p) ==
  \E k \in 1..Len(p.runs) :
    \/ \E i \in 1..Len(p.runs[k].t) : Len(Trim(p.runs[k].t[i])) > 0
    \/ \E i \in 1..Len(p.runs[k].delText) : Len(Trim(p.runs[k].delText[i])) > 0

\* IsExtracted without the text gate
IsExtractedNoTextGate(p, crit) == paragraphIsInteresting(p, crit)

\* the two nested ifs that guard the push (lines 617-619 and 529-531)
IsExtracted(p, crit) ==
  IF paragraphIsInteresting(p, crit)
  THEN IF paragraphHasTextContent(p) THEN TRUE ELSE FALSE
  ELSE FALSE

(***************************************************************************)
(* The body loop of extractParagraphs (wordUtils.ts, lines 583-659).       *)
(***************************************************************************)
CounterDepth == 9

\* references of the arrays, in allocation order (lines 588, 589)
counters == 1
\* styleCounters naming the array of the direct counters
StyleCountersAliased == counters
styleCounters == 2

\* the numbering maps built although the numbering part is absent
NumberingMapsAlways ==
  [numIdToAbstractNumId |-> DocNumIdToAbstractNumId,
   abstractNumIdToFormat |-> DocAbstractNumIdToFormat]

\* line 583: the maps of the numbering part, empty maps without the part
NumberingMaps ==
  IF numberingXml
  THEN [numIdToAbstractNumId |-> DocNumIdToAbstractNumId,
        abstractNumIdToFormat |-> DocAbstractNumIdToFormat]
  ELSE [numIdToAbstractNumId |-> EmptyMap, abstractNumIdToFormat |-> EmptyMap]

numIdToAbstractNumId == NumberingMaps.numIdToAbstractNumId
abstractNumIdToFormat == NumberingMaps.abstractNumIdToFormat
styles == IF stylesXml THEN DocStyles ELSE EmptyMap

Criteria(redline, highlight, squareBrackets, comments, footnotes, endnotes) ==
  [redline |-> redline, highlight |-> highlight, squareBrackets |-> squareBrackets,
   comments |-> comments, footnotes |-> footnotes, endnotes |-> endnotes]

\* the criteria selections the body pass is run under
BodyCriteria ==
  { Criteria(TRUE, FALSE, FALSE, FALSE, FALSE, FALSE),
    Criteria(FALSE, FALSE, FALSE, TRUE, FALSE, FALSE) }

TextRuns == << Run(<< <<"x">> >>, <<>>) >>
BlankRuns == << Run(<< <<" ">> >>, <<>>) >>

\* the paragraphs a body is made of
BodyParagraphs ==
  { Para({"w:ins"}, <<>>, "", TextRuns),
    Para({}, <<>>, "", TextRuns),
    Para({"w:commentRangeStart"}, <<>>, "", TextRuns),
    Para({"w:ins"}, <<>>, "", BlankRuns),
    Para({"w:ins", "w:sectPr"}, <<>>, "", TextRuns),
    Para({"w:ins", "w:lastRenderedPageBreak"}, <<>>, "", TextRuns),
    Para({"w:ins", "w:sectPr", "w:lastRenderedPageBreak"}, <<>>, "", TextRuns),
    Para({"w:ins"}, NumPr("1", <<"0">>), "", TextRuns),
    Para({"w:ins"}, NumPr("1", <<"1">>), "", TextRuns),
    Para({"w:ins"}, NumPr("2", <<"0">>), "", TextRuns),
    Para({"w:ins"}, NumPr("1", <<"0">>), "Heading1", TextRuns),
    Para({"w:ins"}, <<>>, "Heading2", TextRuns),
    Para({"w:ins"}, <<>>, "ListPara", TextRuns),
    Para({"w:ins"}, NumPr("1", <<"-", "1">>), "", TextRuns),
    Para({"w:ins"}, NumPr("1", <<"x">>), "Heading1", TextRuns),
    Para({"w:ins"}, NumPr("1", <<"9">>), "", TextRuns),
    Para({"w:ins"}, NumPr("4", <<"0">>), "LoopA", TextRuns),
    Para({"w:ins", "w:sectPr"}, NumPr("1", <<"0">>), "", TextRuns),
    Para({}, NumPr("1", <<"0">>), "", TextRuns) }

NoParagraph == Para({}, <<>>, "", <<>>)
NoCall == [fn |-> "none"]

\* the tuple of counters behind a label of the given level
LabelTuple(h, ref, level) == Slice0(h[ref], IF level = NaN THEN NaN ELSE level + 1)

DirectLevel(p) == ParseInt(p.numPr[1].ilvl)

StyleLevel(p) ==
  LET sn == resolveStyleNumbering(extractParagraphStyle(p), styles)
  IN ParseInt(IF sn[1].ilvl = <<>> THEN <<"0">> ELSE sn[1].ilvl)

Init ==
  /\ criteria \in BodyCriteria
  /\ numberingXml \in BOOLEAN
  /\ stylesXml \in BOOLEAN
  /\ pc = "loop"
  /\ nParas = 0
  /\ paragraphElement = NoParagraph
  /\ currentSection = 1
  /\ currentPage = 1
  /\ heap = << initializeCounters(CounterDepth), initializeCounters(CounterDepth) >>
  /\ previousNumberingInfo = Null
  /\ numberingInfo = Undefined
  /\ interestingParagraphs = <<>>
  /\ lastProduced = [label |-> Undefined, section |-> 0]
  /\ lastTuple = [r \in {counters, styleCounters} |-> <<>>]
  /\ call = NoCall

\* Markers with the counters' carry-forward surviving a section break
MarkersKeepCarry(p, section, page, previous) ==
  IF HasTag(p, "w:sectPr")
  THEN [section |-> section + 1, page |-> 1, previous |-> previous]
  ELSE IF HasTag(p, "w:lastRenderedPageBreak")
       THEN [section |-> section, page |-> page + 1, previous |-> previous]
       ELSE [section |-> section, page |-> page, previous |-> previous]

\* Markers with the page break counted after the section break, not instead
MarkersBothCounted(p, section, page, previous) ==
  LET afterSect == IF HasTag(p, "w:sectPr")
                   THEN [section |-> section + 1, page |-> 1, previous |-> Null]
                   ELSE [section |-> section, page |-> page, previous |-> previous]
  IN IF HasTag(p, "w:lastRenderedPageBreak")
     THEN [afterSect EXCEPT !.page = afterSect.page + 1]
     ELSE afterSect

\* Markers with the section number left alone
MarkersNoSection(p, section, page, previous) ==
  IF HasTag(p, "w:sectPr")
  THEN [section |-> section, page |-> 1, previous |-> Null]
  ELSE IF HasTag(p, "w:lastRenderedPageBreak")
       THEN [section |-> section, page |-> page + 1, previous |-> previous]
       ELSE [section |-> section, page |-> page, previous |-> previous]

\* lines 597-603: what the markers of paragraph p make of the section number,
\* the page number and the carry-forward label
Markers(p, section, page, previous) ==
  IF HasTag(p, "w:sectPr")
  THEN [section |-> section + 1, page |-> 1, previous |-> Null]
  ELSE IF HasTag(p, "w:lastRenderedPageBreak")
       THEN [section |-> section, page |-> page + 1, previous |-> previous]
       ELSE [section |-> section, page |-> page, previous |-> previous]

\* lines 596-603: the next paragraph, and its section and page markers
BreakStep ==
  /\ pc = "loop"
  /\ nParas < MaxParagraphs
  /\ \E p \in BodyParagraphs :
       LET m == Markers(p, currentSection, currentPage, previousNumberingInfo)
       IN /\ paragraphElement' = p
          /\ currentSection' = m.section
          /\ currentPage' = m.page
          /\ previousNumberingInfo' = m.previous
  /\ nParas' = nParas + 1
  /\ numberingInfo' = Undefined
  /\ pc' = "direct"
  /\ UNCHANGED <<criteria, numberingXml, stylesXml, heap, interestingParagraphs,
                 lastProduced, lastTuple, call>>

\* line 606: direct numbering
DirectStep ==
  /\ pc = "direct"
  /\ LET r == IF numberingXml
              THEN trackNumbering(paragraphElement, numIdToAbstractNumId,
                                  abstractNumIdToFormat, heap, counters)
              ELSE [ret |-> Undefined, heap |-> heap]
     IN /\ numberingInfo' = r.ret
        /\ heap' = r.heap
        /\ IF Truthy(r.ret)
           THEN /\ lastProduced' = [label |-> r.ret, section |-> currentSection]
                /\ lastTuple' = [lastTuple EXCEPT ![counters] =
                                   LabelTuple(r.heap, counters, DirectLevel(paragraphElement))]
           ELSE UNCHANGED <<lastProduced, lastTuple>>
  /\ pc' = "style"
  /\ UNCHANGED <<criteria, numberingXml, stylesXml, nParas, paragraphElement,
                 currentSection, currentPage, previousNumberingInfo,
                 interestingParagraphs, call>>

\* lines 609-611: style numbering, when direct numbering gave no label
StyleStep ==
  /\ pc = "style"
  /\ IF ~Truthy(numberingInfo)
     THEN LET r == IF stylesXml
                   THEN trackStyleNumbering(paragraphElement, styles, numIdToAbstractNumId,
                                            abstractNumIdToFormat, heap, styleCounters)
                   ELSE [ret |-> Undefined, heap |-> heap]
          IN /\ numberingInfo' = r.ret
             /\ heap' = r.heap
             /\ IF Truthy(r.ret)
                THEN /\ lastProduced' = [label |-> r.ret, section |-> currentSection]
                     /\ lastTuple' = [lastTuple EXCEPT ![styleCounters] =
                                        LabelTuple(r.heap, styleCounters,
                                                   StyleLevel(paragraphElement))]
                ELSE UNCHANGED <<lastProduced, lastTuple>>
     ELSE UNCHANGED <<numberingInfo, heap, lastProduced, lastTuple>>
  /\ pc' = "emit"
  /\ UNCHANGED <<criteria, numberingXml, stylesXml, nParas, paragraphElement,
                 currentSection, currentPage, previousNumberingInfo,
                 interestingParagraphs, call>>

\* EffectiveLabel with the carry-forward label taking precedence
EffectiveLabelCarryFirst(info, previous) ==
  IF Truthy(previous) THEN previous ELSE info

\* lines 613-615: the label of the paragraph after the carry-forward
EffectiveLabel(info, previous) ==
  IF ~Truthy(info) /\ Truthy(previous) THEN previous ELSE info

\* lines 644-652: the record pushed for an extracted body paragraph
BodyRecord(p, info, section, page) ==
  [section |-> IF Truthy(info) THEN <<>> ELSE <<section>>,
   page |-> IF Truthy(info) THEN <<>> ELSE <<page>>,
   numbering |-> IF Truthy(info) THEN info ELSE Undefined,
   style |-> extractParagraphStyle(p),
   source |-> "document"]

\* lines 613-658: carry-forward, classification, the push, the new carry-forward
EmitStep ==
  /\ pc = "emit"
  /\ LET info == EffectiveLabel(numberingInfo, previousNumberingInfo)
     IN /\ numberingInfo' = info
        /\ interestingParagraphs' =
             IF IsExtracted(paragraphElement, criteria)
             THEN Append(interestingParagraphs,
                         BodyRecord(paragraphElement, info, currentSection, currentPage))
             ELSE interestingParagraphs
        /\ previousNumberingInfo' = IF Truthy(info) THEN info ELSE previousNumberingInfo
  /\ pc' = "loop"
  /\ UNCHANGED <<criteria, numberingXml, stylesXml, nParas, paragraphElement,
                 currentSection, currentPage, heap, lastProduced, lastTuple, call>>

\* the body loop ends with the last paragraph of the document
EndBody ==
  /\ pc = "loop"
  /\ pc' = "done"
  /\ UNCHANGED <<criteria, numberingXml, stylesXml, nParas, paragraphElement,
                 currentSection, currentPage, heap, previousNumberingInfo,
                 numberingInfo, interestingParagraphs, lastProduced, lastTuple, call>>

Next == BreakStep \/ DirectStep \/ StyleStep \/ EmitStep \/ EndBody

Spec == Init /\ [][Next]_vars

\* line 840: the Ref cell of a report row
RefCell(rec) ==
  IF Truthy(rec.numbering) THEN rec.numbering
  ELSE <<"S", "e", "c", "t", " ">>
       \o (IF rec.section = <<>> THEN <<"u", "n", "d", "e", "f", "i", "n", "e", "d">>
           ELSE NumToString(rec.section[1]))
       \o <<",", " ", "p", " ">>
       \o (IF rec.page = <<>> THEN <<"u", "n", "d", "e", "f", "i", "n", "e", "d">>
           ELSE NumToString(rec.page[1]))

(***************************************************************************)
(* Properties of the body pass.                                            *)
(***************************************************************************)
Last(q) == q[Len(q)]

IsSectPageText(t) == Len(t) >= 5 /\ SubSeq(t, 1, 5) = <<"S", "e", "c", "t", " ">>

\* a record carries a label and no section/page, shown by that label, or a
\* section and a page and no label
WellLocated(rec) ==
  \/ /\ Truthy(rec.numbering)
     /\ rec.section = <<>> /\ rec.page = <<>>
     /\ RefCell(rec) = rec.numbering
  \/ /\ rec.numbering = Undefined
     /\ Len(rec.section) = 1 /\ Len(rec.page) = 1
     /\ IsSectPageText(RefCell(rec))

RECURSIVE LexLess(_, _)
LexLess(a, b) ==
  IF b = <<>> THEN FALSE
  ELSE IF a = <<>> THEN TRUE
  ELSE IF a[1] = NaN \/ b[1] = NaN THEN FALSE
  ELSE IF a[1] # b[1] THEN a[1] < b[1]
  ELSE LexLess(Tail(a), Tail(b))

\* C4: within one counter scope the counter tuple behind a label is never
\* lexicographically smaller than the tuple behind the previous label
\* produced from the same counter state.
C4_Monotonic ==
  [][ \A r \in DOMAIN lastTuple : ~LexLess(lastTuple'[r], lastTuple[r]) ]_vars

\* C5: a paragraph with a section-break marker increases the section number
\* by one, sets the page number to 1 and clears the carry-forward label, and
\* that transition leaves every counter array as it was.
C5_SectionBreak ==
  [][ (pc = "loop" /\ pc' = "direct" /\ HasTag(paragraphElement', "w:sectPr"))
        => /\ currentSection' = currentSection + 1
           /\ currentPage' = 1
           /\ previousNumberingInfo' = Null
           /\ heap' = heap
    ]_vars

\* C5 witness: the third numbered paragraph carries the section break and is
\* numbered 3 in section 2
C5_Witness ==
  /\ pc = "loop"
  /\ HasTag(paragraphElement, "w:sectPr")
  /\ currentSection = 2
  /\ currentPage = 1
  /\ Len(interestingParagraphs) = 3
  /\ Last(interestingParagraphs).numbering = <<"3", ".">>

\* C6 as claimed: every paragraph with a rendered-page-break marker increases
\* the page number by one whatever other markers it carries, and a paragraph
\* with neither marker leaves the page number unchanged.
C6_PageBreakAlways ==
  [][ (pc = "loop" /\ pc' = "direct")
        => /\ HasTag(paragraphElement', "w:lastRenderedPageBreak")
                => currentPage' = currentPage + 1
           /\ (~HasTag(paragraphElement', "w:lastRenderedPageBreak")
               /\ ~HasTag(paragraphElement', "w:sectPr"))
                => currentPage' = currentPage
    ]_vars

\* C6 amended: a paragraph with a rendered-page-break marker and no
\* section-break marker increases the page number by one; a paragraph with a
\* section-break marker sets it to 1 whether or not it also carries a
\* rendered-page-break marker; a paragraph with neither leaves it unchanged.
C6_PageBreakUnlessSection ==
  [][ (pc = "loop" /\ pc' = "direct")
        => /\ (HasTag(paragraphElement', "w:lastRenderedPageBreak")
               /\ ~HasTag(paragraphElement', "w:sectPr"))
                => currentPage' = currentPage + 1
           /\ HasTag(paragraphElement', "w:sectPr") => currentPage' = 1
           /\ (~HasTag(paragraphElement', "w:lastRenderedPageBreak")
               /\ ~HasTag(paragraphElement', "w:sectPr"))
                => currentPage' = currentPage
    ]_vars

\* C6 witness: after two page breaks, a paragraph with both markers has put
\* the page number back to 1
C6_Witness ==
  /\ pc = "direct"
  /\ HasTag(paragraphElement, "w:lastRenderedPageBreak")
  /\ HasTag(paragraphElement, "w:sectPr")
  /\ nParas = 3
  /\ currentSection = 2
  /\ currentPage = 1
  /\ Len(interestingParagraphs) = 2
  /\ interestingParagraphs[2].page = <<3>>

\* C7: a paragraph without a label of its own takes the carry-forward label
\* only when that label is the last one a tracker produced and was produced
\* in the current section; otherwise, when extracted, it is located by the
\* current section and page.
C7_CarryWithinSection ==
  [][ (pc = "emit" /\ ~Truthy(numberingInfo))
        => /\ Truthy(numberingInfo')
                => /\ numberingInfo' = lastProduced.label
                   /\ lastProduced.section = currentSection
           /\ (lastProduced.section # currentSection
               /\ interestingParagraphs' # interestingParagraphs)
                => /\ Last(interestingParagraphs').numbering = Undefined
                   /\ Last(interestingParagraphs').section = <<currentSection>>
                   /\ Last(interestingParagraphs').page = <<currentPage>>
    ]_vars

\* C7 witness: a numbered paragraph, an unnumbered one that carries its
\* label, then an unnumbered section-break paragraph located by section/page
C7_Witness ==
  /\ pc = "loop"
  /\ Len(interestingParagraphs) = 3
  /\ interestingParagraphs[1].numbering = <<"1", ".">>
  /\ interestingParagraphs[2].numbering = <<"1", ".">>
  /\ interestingParagraphs[3].numbering = Undefined
  /\ interestingParagraphs[3].section = <<2>>
  /\ interestingParagraphs[3].page = <<1>>
  /\ lastProduced = [label |-> <<"1", ".">>, section |-> 1]
  /\ heap[counters][1] = 1

\* C8: the style tracker's call leaves the direct counters as they were, the
\* direct tracker's call leaves the style counters as they were, and the
\* style tracker's label is the one the direct tracker gives for the same
\* list id and level on the same counter values.
C8_SeparateCounters ==
  [][ /\ (pc = "style" /\ pc' = "emit") => heap'[counters] = heap[counters]
      /\ (pc = "direct" /\ pc' = "style") => heap'[styleCounters] = heap[styleCounters]
      /\ (pc = "style" /\ ~Truthy(numberingInfo) /\ Truthy(numberingInfo'))
           => LET sn == resolveStyleNumbering(paragraphElement.pStyle, styles)[1]
                  q == Para({}, NumPr(sn.numId,
                                      IF sn.ilvl = <<>> THEN <<"0">> ELSE sn.ilvl),
                            "", <<>>)
              IN numberingInfo' = trackNumbering(q, numIdToAbstractNumId,
                                                 abstractNumIdToFormat, heap,
                                                 styleCounters).ret
    ]_vars

\* C8 witness: list "1" has given the direct label 2 and, through style
\* Heading1, the style label 1
C8_Witness ==
  /\ pc = "emit"
  /\ paragraphElement.pStyle = "Heading2"
  /\ numberingInfo = <<"1", ".">>
  /\ heap[counters][1] = 2
  /\ heap[styleCounters][1] = 1

(***************************************************************************)
(* Single-function specifications.  The body pass is not running: its      *)
(* variables keep the values below.                                        *)
(***************************************************************************)
BodyIdle ==
  /\ numberingXml = FALSE
  /\ stylesXml = FALSE
  /\ pc = "idle"
  /\ nParas = 0
  /\ currentSection = 1
  /\ currentPage = 1
  /\ previousNumberingInfo = Null
  /\ numberingInfo = Undefined
  /\ interestingParagraphs = <<>>
  /\ lastProduced = [label |-> Undefined, section |-> 0]
  /\ lastTuple = [r \in {counters, styleCounters} |-> <<>>]

NoCriteria == Criteria(FALSE, FALSE, FALSE, FALSE, FALSE, FALSE)

(***************************************************************************)
(* updateCounters called on an array of the heap (part_008, lines 355-361).*)
(***************************************************************************)
CounterArrays == UNION { [1..n -> 0..MaxCounter] : n \in 1..MaxArrayLen }

InitCounters ==
  /\ BodyIdle
  /\ criteria = NoCriteria
  /\ paragraphElement = NoParagraph
  /\ \E a \in CounterArrays : heap = <<a, a>>
  /\ call = [fn |-> "updateCounters", pc |-> "ready"]

\* updateCounters handing back a fresh array
UpdateCountersCallCopy ==
  /\ call.fn = "updateCounters"
  /\ call.pc = "ready"
  /\ \E ref \in DOMAIN heap, ilvl \in -1..MaxArrayLen :
       /\ heap' = Append(heap, updateCounters(heap[ref], ilvl))
       /\ call' = [fn |-> "updateCounters", pc |-> "returned", counters |-> ref,
                   ilvl |-> ilvl, before |-> heap, ret |-> Len(heap) + 1]
  /\ UNCHANGED bodyVars

\* the caller passes the reference of an array and a level; the array is
\* written in place and its reference returned
UpdateCountersCall ==
  /\ call.fn = "updateCounters"
  /\ call.pc = "ready"
  /\ \E ref \in DOMAIN heap, ilvl \in -1..MaxArrayLen :
       /\ heap' = [heap EXCEPT ![ref] = updateCounters(heap[ref], ilvl)]
       /\ call' = [fn |-> "updateCounters", pc |-> "returned", counters |-> ref,
                   ilvl |-> ilvl, before |-> heap, ret |-> ref]
  /\ UNCHANGED bodyVars

NextCounters == UpdateCountersCall

SpecCounters == InitCounters /\ [][NextCounters]_vars

\* C2: for 0 <= L < length, updateCounters(counters, L) adds exactly one to
\* counters[L], zeroes every higher index, leaves every lower index alone,
\* and returns the array it was given, written in place; no other array
\* changes.
C2_UpdateCounters ==
  (call.fn = "updateCounters" /\ call.pc = "returned"
   /\ call.ilvl >= 0 /\ call.ilvl < Len(call.before[call.counters]))
    => LET old == call.before[call.counters]
           new == heap[call.counters]
       IN /\ call.ret = call.counters
          /\ DOMAIN heap = DOMAIN call.before
          /\ Len(new) = Len(old)
          /\ new[call.ilvl + 1] = old[call.ilvl + 1] + 1
          /\ \A k \in (call.ilvl + 2)..Len(old) : new[k] = 0
          /\ \A k \in 1..call.ilvl : new[k] = old[k]
          /\ \A r \in DOMAIN heap \ {call.counters} : heap[r] = call.before[r]

\* C2 witness: [1,2,2] at level 1 has become [1,3,0] in place
C2_Witness ==
  /\ call.fn = "updateCounters"
  /\ call.pc = "returned"
  /\ call.ilvl = 1
  /\ call.before[call.counters] = <<1, 2, 2>>
  /\ heap[call.ret] = <<1, 3, 0>>
  /\ call.counters = 1
  /\ heap[2] = <<1, 2, 2>>

(***************************************************************************)
(* Two runs of the direct tracker of line 606: one over a document that    *)
(* interleaves paragraphs of list "1" with paragraphs of another list, one *)
(* over the same document without the other list's paragraphs.             *)
(***************************************************************************)
ListParagraphs ==
  { Para({}, NumPr(n, l), "", <<>>) : n \in {"1", "2", "3"}, l \in {<<"0">>, <<"1">>} }

InitLists ==
  /\ BodyIdle
  /\ criteria = NoCriteria
  /\ paragraphElement = NoParagraph
  /\ heap = << initializeCounters(CounterDepth), initializeCounters(CounterDepth) >>
  /\ call = [fn |-> "lists", n |-> 0, full |-> <<>>, solo |-> <<>>]

ListStep ==
  /\ call.fn = "lists"
  /\ call.n < MaxListSteps
  /\ \E p \in ListParagraphs :
       LET ofListOne == p.numPr[1].numId = "1"
           rf == trackNumbering(p, DocNumIdToAbstractNumId, DocAbstractNumIdToFormat,
                                heap, 1)
           rs == IF ofListOne
                 THEN trackNumbering(p, DocNumIdToAbstractNumId,
                                     DocAbstractNumIdToFormat, rf.heap, 2)
                 ELSE [ret |-> Undefined, heap |-> rf.heap]
       IN /\ heap' = rs.heap
          /\ call' = [fn |-> "lists", n |-> call.n + 1,
                      full |-> IF ofListOne THEN Append(call.full, rf.ret) ELSE call.full,
                      solo |-> IF ofListOne THEN Append(call.solo, rs.ret) ELSE call.solo]
  /\ UNCHANGED bodyVars

NextLists == ListStep

SpecLists == InitLists /\ [][NextLists]_vars

\* C3: the labels of list "1"'s paragraphs in the interleaved document are
\* those of the document with the other lists' paragraphs removed.
C3_IndependentLists ==
  call.fn = "lists" => call.full = call.solo

(***************************************************************************)
(* The extraction gate applied to one paragraph under one criteria         *)
(* selection.                                                              *)
(***************************************************************************)
MarkerTags == {"w:del", "w:ins", "w:moveFrom", "w:moveTo", "w:commentRangeStart",
               "w:footnoteReference", "w:endnoteReference", "w:highlight"}

ClassifyRuns ==
  { <<>>,
    BlankRuns,
    TextRuns,
    << Run(<< <<"[">> >>, <<>>) >>,
    << Run(<<>>, << <<"x">> >>) >>,
    << Run(<< <<" ">>, <<"]">> >>, <<>>) >>,
    << Run(<<>>, <<>>), Run(<< <<"a", "]">> >>, <<>>) >>,
    << Run(<< <<"\t">> >>, << <<" ">> >>) >> }

ClassifyParagraphs ==
  { Para(tags, <<>>, "", runs) : tags \in SUBSET MarkerTags, runs \in ClassifyRuns }

AllCriteria ==
  [redline : BOOLEAN, highlight : BOOLEAN, squareBrackets : BOOLEAN,
   comments : BOOLEAN, footnotes : BOOLEAN, endnotes : BOOLEAN]

InitClassify ==
  /\ BodyIdle
  /\ criteria \in AllCriteria
  /\ paragraphElement \in ClassifyParagraphs
  /\ heap = <<>>
  /\ call = [fn |-> "classify", pc |-> "ready", extracted |-> FALSE]

ClassifyCall ==
  /\ call.fn = "classify"
  /\ call.pc = "ready"
  /\ call' = [fn |-> "classify", pc |-> "returned",
              extracted |-> IsExtracted(paragraphElement, criteria)]
  /\ UNCHANGED <<bodyVars, heap>>

NextClassify == ClassifyCall

SpecClassify == InitClassify /\ [][NextClassify]_vars

\* some run has a visible or deleted text with a character that is not
\* white space
SomeNonBlankText(p) ==
  \E k \in 1..Len(p.runs) :
    \/ \E i \in 1..Len(p.runs[k].t) :
         \E j \in 1..Len(p.runs[k].t[i]) : ~IsSpace(p.runs[k].t[i][j])
    \/ \E i \in 1..Len(p.runs[k].delText) :
         \E j \in 1..Len(p.runs[k].delText[i]) : ~IsSpace(p.runs[k].delText[i][j])

\* some enabled criterion has its predicate true
EnabledPredicateHolds(p, crit) ==
  \/ crit.redline /\ p.tags \cap {"w:del", "w:ins", "w:moveFrom", "w:moveTo"} # {}
  \/ crit.comments /\ "w:commentRangeStart" \in p.tags
  \/ crit.footnotes /\ "w:footnoteReference" \in p.tags
  \/ crit.endnotes /\ "w:endnoteReference" \in p.tags
  \/ crit.highlight /\ "w:highlight" \in p.tags
  \/ crit.squareBrackets /\ SquareBrackets(p)

\* C9: a paragraph is extracted exactly when some enabled criterion has its
\* predicate true for it and some run has non-blank visible or deleted text;
\* with every criterion disabled nothing is extracted.
C9_ExtractedIff ==
  (call.fn = "classify" /\ call.pc = "returned")
    => /\ call.extracted
            <=> (EnabledPredicateHolds(paragraphElement, criteria)
                 /\ SomeNonBlankText(paragraphElement))
       /\ criteria = NoCriteria => ~call.extracted

\* C9 witness: with only the comments criterion enabled, a paragraph with a
\* comment marker, an insertion and deleted text only is extracted
C9_Witness ==
  /\ call.fn = "classify"
  /\ call.pc = "returned"
  /\ call.extracted
  /\ criteria = Criteria(FALSE, FALSE, FALSE, TRUE, FALSE, FALSE)
  /\ paragraphElement.tags = {"w:commentRangeStart", "w:ins"}
  /\ paragraphElement.runs = << Run(<<>>, << <<"x">> >>) >>

(***************************************************************************)
(* resolveStyleNumbering as the loop it is (part_008, lines 318-338).      *)
(***************************************************************************)
AllStyleIds == <<"A", "B", "C", "D", "E", "F">>
StyleIds == { AllStyleIds[i] : i \in 1..NumStyles }

\* a style's parent, and whether it declares numbering
StyleChoices == (StyleIds \cup {"", "Missing"}) \X BOOLEAN

\* the numbering a style declares names the style, so that two styles'
\* records differ
StyleMaps ==
  { [i \in StyleIds |->
       [id |-> i, basedOn |-> g[i][1],
        numbering |-> IF g[i][2] THEN << [numId |-> i, ilvl |-> <<"0">>] >> ELSE <<>>]] :
      g \in [StyleIds -> StyleChoices] }

InitStyles ==
  /\ BodyIdle
  /\ criteria = NoCriteria
  /\ paragraphElement = NoParagraph
  /\ heap = <<>>
  /\ \E m \in StyleMaps, s \in StyleIds \cup {"", "Missing"} :
       call = [fn |-> "resolveStyleNumbering", pc |-> "loop", styles |-> m,
               styleId |-> s, currentStyleId |-> s, visited |-> {}, ret |-> <<>>]

ResolveStep(kind) ==
  /\ call.fn = "resolveStyleNumbering"
  /\ call.pc = "loop"
  /\ LET r == ResolveLoop(call.currentStyleId, call.visited, call.styles)
     IN /\ r.kind = kind
        /\ call' = [call EXCEPT !.pc = IF kind = "continue" THEN "loop" ELSE "done",
                                !.currentStyleId = r.next,
                                !.visited = r.visited,
                                !.ret = r.ret]
  /\ UNCHANGED <<bodyVars, heap>>

\* lines 322-334: an iteration that moves on to the parent style
ResolveContinue == ResolveStep("continue")
\* lines 330-332: the style declares numbering
ResolveReturn == ResolveStep("return")
\* lines 326-328: the style is unknown
ResolveBreak == ResolveStep("break")
\* line 322: the while condition fails
ResolveExit == ResolveStep("exit")

NextStyles == ResolveContinue \/ ResolveReturn \/ ResolveBreak \/ ResolveExit

\* the loop is sequential code: it runs while it can
SpecStyles == InitStyles /\ [][NextStyles]_vars /\ WF_vars(NextStyles)

\* the styles on the parent chain of s
RECURSIVE ChainFrom(_, _, _)
ChainFrom(m, s, seen) ==
  IF s = "" \/ s \in seen \/ s \notin DOMAIN m THEN seen
  ELSE ChainFrom(m, m[s].basedOn, seen \cup {s})

\* C10: resolveStyleNumbering terminates for every style map and start id;
\* each iteration visits a style not visited before; and when no style on
\* the parent chain declares numbering, cycles included, it returns
\* undefined.
C10_ResolveTerminates ==
  /\ [][ (call.pc = "loop" /\ call'.pc = "loop")
           => /\ call.currentStyleId \notin call.visited
              /\ call'.visited = call.visited \cup {call.currentStyleId} ]_vars
  /\ [](Cardinality(call.visited) <= Cardinality(DOMAIN call.styles) + 1)
  /\ <>(call.pc = "done")
  /\ []((call.pc = "done"
         /\ \A s \in ChainFrom(call.styles, call.styleId, {}) :
              call.styles[s].numbering = <<>>)
          => call.ret = <<>>)

\* C10 witness: A based on B, B based on A, neither numbered: both visited
\* once, undefined returned
C10_Witness ==
  /\ call.fn = "resolveStyleNumbering"
  /\ call.pc = "done"
  /\ call.styleId = "A"
  /\ call.styles["A"].basedOn = "B" /\ call.styles["A"].numbering = <<>>
  /\ call.styles["B"].basedOn = "A" /\ call.styles["B"].numbering = <<>>
  /\ call.visited = {"A", "B"}
  /\ call.ret = <<>>

\* the parent chain of s as a sequence: s, its parent, ... up to the first
\* absent parent, unknown style or repetition
RECURSIVE ChainSeq(_, _, _)
ChainSeq(m, s, acc) ==
  IF s = "" \/ s \notin DOMAIN m \/ s \in { acc[i] : i \in 1..Len(acc) } THEN acc
  ELSE ChainSeq(m, m[s].basedOn, Append(acc, s))

\* C11: resolveStyleNumbering returns, unchanged, the numbering record of
\* the first style on the parent chain from styleId that declares numbering,
\* and undefined when the start style is unknown or no style on the chain
\* declares numbering.
C11_FirstNumberedStyle ==
  (call.fn = "resolveStyleNumbering" /\ call.pc = "done")
    => LET chain == ChainSeq(call.styles, call.styleId, <<>>)
           numbered == { i \in 1..Len(chain) : call.styles[chain[i]].numbering # <<>> }
       IN /\ numbered = {} => call.ret = <<>>
          /\ numbered # {}
               => \E i \in numbered :
                    /\ \A j \in numbered : i <= j
                    /\ call.ret = call.styles[chain[i]].numbering
          /\ call.styleId \notin DOMAIN call.styles => call.ret = <<>>

\* C11 witness: A without numbering is based on B; B and its parent C both
\* declare numbering; B's record is returned
C11_Witness ==
  /\ call.fn = "resolveStyleNumbering"
  /\ call.pc = "done"
  /\ call.styleId = "A"
  /\ call.styles["A"].basedOn = "B" /\ call.styles["A"].numbering = <<>>
  /\ call.styles["B"].basedOn = "C" /\ call.styles["B"].numbering # <<>>
  /\ call.styles["C"].numbering # <<>>
  /\ call.ret = << [numId |-> "B", ilvl |-> <<"0">>] >>

(***************************************************************************)
(* One call of trackNumbering or of trackStyleNumbering (part_008, lines   *)
(* 371-403 and 429-466) on counters of the heap, for a numbering part with *)
(* one abstract definition "0" reached by list id "1"; list id "4" names   *)
(* an abstract definition that is not there, list id "7" is unknown.       *)
(***************************************************************************)
TemplateChars == {"%", "1", "2", "."}

Templates == UNION { [1..n -> TemplateChars] : n \in 0..MaxTemplateLen }

\* the format lists of an abstract definition: no level, one level of
\* letters, or a decimal level over a level of letters, the levels sharing
\* one template
FormatLists ==
  {<<>>}
  \cup { << [numFmt |-> "lowerLetter", lvlText |-> t] >> : t \in Templates }
  \cup { << [numFmt |-> "decimal", lvlText |-> t],
            [numFmt |-> "lowerLetter", lvlText |-> t] >> : t \in Templates }

TrackNumIds == [n \in {"1", "4"} |-> IF n = "1" THEN "0" ELSE "9"]

TrackFormats(formats) == [a \in {"0"} |-> formats]

LevelTexts == { <<"0">>, <<"1">>, <<"2">>, <<"-", "1">>, <<"x">>, <<"9">> }

\* w:numPr of the paragraphs handed to trackNumbering
TrackNumPrs ==
  { <<>>, NumPr("", <<"0">>), NumPr("1", <<>>), NumPr("4", <<"0">>), NumPr("7", <<"0">>) }
  \cup { NumPr("1", l) : l \in LevelTexts }

\* the style map of the paragraphs handed to trackStyleNumbering: style "S"
\* declares the numbering, style "T" inherits it; "U" declares none
TrackStyles(numbering) ==
  [x \in {"S", "T", "U"} |->
     [id |-> x, basedOn |-> IF x = "T" THEN "S" ELSE "",
      numbering |-> IF x = "S" THEN numbering ELSE <<>>]]

InitTrack ==
  /\ BodyIdle
  /\ criteria = NoCriteria
  /\ paragraphElement = NoParagraph
  /\ \E c0 \in 0..MaxCounter, c1 \in 0..MaxCounter :
       LET a == [k \in 1..CounterDepth |-> IF k = 1 THEN c0 ELSE IF k = 2 THEN c1 ELSE 0]
       IN heap = <<a, a>>
  /\ \E f \in FormatLists : call = [fn |-> "track", pc |-> "ready", formats |-> f]

\* the style a paragraph names and the numbering style "S" declares
TrackStyleChoices ==
  { <<st, NumPr("1", <<"0">>)>> : st \in {"", "U", "V"} }
  \cup { <<st, np>> : st \in {"S", "T"}, np \in TrackNumPrs \ {<<>>} }

\* the direct tracker on the array of reference counters (1)
TrackNumberingCall ==
  /\ call.fn = "track"
  /\ call.pc = "ready"
  /\ \E np \in TrackNumPrs :
       LET p == Para({}, np, "", TextRuns)
           r == trackNumbering(p, TrackNumIds, TrackFormats(call.formats), heap, counters)
       IN /\ heap' = r.heap
          /\ call' = [fn |-> "track", pc |-> "returned", tracker |-> "direct",
                      formats |-> call.formats, p |-> p, styles |-> EmptyMap,
                      counters |-> counters, before |-> heap, ret |-> r.ret]
  /\ UNCHANGED bodyVars

\* the style tracker on the array of reference styleCounters (2)
TrackStyleNumberingCall ==
  /\ call.fn = "track"
  /\ call.pc = "ready"
  /\ \E ch \in TrackStyleChoices :
       LET p == Para({}, <<>>, ch[1], TextRuns)
           sm == TrackStyles(ch[2])
           r == trackStyleNumbering(p, sm, TrackNumIds, TrackFormats(call.formats),
                                    heap, styleCounters)
       IN /\ heap' = r.heap
          /\ call' = [fn |-> "track", pc |-> "returned", tracker |-> "style",
                      formats |-> call.formats, p |-> p, styles |-> sm,
                      counters |-> styleCounters, before |-> heap, ret |-> r.ret]
  /\ UNCHANGED bodyVars

NextTrack == TrackNumberingCall \/ TrackStyleNumberingCall

SpecTrack == InitTrack /\ [][NextTrack]_vars

\* the list id and level the call's paragraph numbers itself by: its own
\* w:numPr for the direct tracker, the one of style "S" for a paragraph of
\* style "S" or "T" for the style tracker
CallNumPr ==
  IF call.tracker = "direct" THEN call.p.numPr
  ELSE IF call.p.pStyle \in {"S", "T"} THEN call.styles["S"].numbering ELSE <<>>

\* the paragraph names list "1", the one the numbering part defines, and a
\* level (a style without a level means level 0)
CallResolvable ==
  /\ CallNumPr # <<>>
  /\ CallNumPr[1].numId = "1"
  /\ call.tracker = "direct" => CallNumPr[1].ilvl # <<>>

CallLevelText == IF CallNumPr[1].ilvl = <<>> THEN <<"0">> ELSE CallNumPr[1].ilvl

CallLevelValid == CallLevelText \in { <<"0">>, <<"1">>, <<"2">> }

CallLevel == CASE CallLevelText = <<"0">> -> 0
               [] CallLevelText = <<"1">> -> 1
               [] CallLevelText = <<"2">> -> 2

\* the template with every placeholder %k, k in 1..Len(numbers), replaced
\* by numbers[k], everything else as written
RECURSIVE Substitute(_, _)
Substitute(t, numbers) ==
  IF t = <<>> THEN <<>>
  ELSE IF Len(t) >= 2 /\ t[1] = "%" /\ IsDigit(t[2])
          /\ DigitVal(t[2]) \in 1..Len(numbers)
       THEN numbers[DigitVal(t[2])] \o Substitute(SubSeq(t, 3, Len(t)), numbers)
       ELSE <<t[1]>> \o Substitute(Tail(t), numbers)

\* what C12 says the label of the returned call is
ExpectedLabel ==
  LET L == CallLevel
      new == heap[call.counters]
      fm == [k \in 1..(L + 1) |->
               formatNumber(new[k], IF k <= Len(call.formats)
                                    THEN call.formats[k].numFmt ELSE "decimal")]
      tmpl == IF L + 1 <= Len(call.formats) THEN call.formats[L + 1].lvlText ELSE <<>>
  IN IF tmpl # <<>> THEN Substitute(tmpl, fm) ELSE Join(fm, <<".">>)

\* C12: for a numbered paragraph at level L the counter of level L advances
\* and the label is the level's template with each %k, k <= L+1, replaced by
\* the formatted counter of level k-1 and higher placeholders left as
\* written; without a template, or beyond the defined levels, it is the
\* formatted counters of levels 0..L joined by '.'.
C12_LabelFromTemplate ==
  (call.fn = "track" /\ call.pc = "returned" /\ CallResolvable /\ CallLevelValid)
    => /\ heap[call.counters][CallLevel + 1]
            = call.before[call.counters][CallLevel + 1] + 1
       /\ call.ret = ExpectedLabel

\* a literal "%" directly before a placeholder
PercentBeforePlaceholder(t) ==
  \E i \in 1..(Len(t) - 2) : t[i] = "%" /\ t[i + 1] = "%" /\ IsDigit(t[i + 2])

\* C12 for templates in which no literal "%" stands directly before a
\* placeholder
C12_LabelPlainTemplates ==
  (call.fn = "track" /\ call.pc = "returned" /\ CallResolvable /\ CallLevelValid
   /\ \A k \in 1..Len(call.formats) : ~PercentBeforePlaceholder(call.formats[k].lvlText))
    => /\ heap[call.counters][CallLevel + 1]
            = call.before[call.counters][CallLevel + 1] + 1
       /\ call.ret = ExpectedLabel

\* the paragraph has no direct list-id/level attributes, or its list id is
\* not in the list-id map, or the mapped abstract definition has no format
\* list
DirectUnresolvable ==
  \/ call.p.numPr = <<>>
  \/ call.p.numPr[1].numId = ""
  \/ call.p.numPr[1].ilvl = <<>>
  \/ call.p.numPr[1].numId = "7"
  \/ call.p.numPr[1].numId = "4"

IsCounterState(a) ==
  /\ Len(a) = CounterDepth
  /\ \A k \in 1..Len(a) : a[k] >= 0

\* C14: when the level attribute of the paragraph (or of its style) is not a
\* valid level number (non-numeric, negative, or not below 9), no label is
\* produced and every counter state stays the sequence of 9 non-negative
\* integers it was.
C14_InvalidLevelAbsent ==
  (call.fn = "track" /\ call.pc = "returned" /\ CallResolvable /\ ~CallLevelValid)
    => /\ ~Truthy(call.ret)
       /\ heap = call.before
       /\ \A r \in DOMAIN heap : IsCounterState(heap[r])

(***************************************************************************)
(* The whole of extractParagraphs (wordUtils.ts, lines 583-735): the body  *)
(* pass, then the pass over the header and footer parts.  The second pass  *)
(* walks allParagraphs again and handles one section per paragraph with a  *)
(* w:sectPr; these are the currentSection - 1 paragraphs that made the     *)
(* body pass increase currentSection (lines 597-598), so the walk is       *)
(* modelled by sectionForHeaders running up to currentSection.             *)
(***************************************************************************)
\* the header/footer pass counting in the body's direct counters
HeaderFooterCountersAliased == counters

\* reference of the array allocated at line 664
headerFooterCounters == 3

\* the body paragraphs of an extraction
ExtractParagraphs ==
  { Para({"w:ins"}, <<>>, "", TextRuns),
    Para({"w:ins", "w:sectPr"}, <<>>, "", TextRuns),
    Para({"w:sectPr"}, <<>>, "", TextRuns),
    Para({"w:ins"}, NumPr("1", <<"0">>), "", TextRuns),
    Para({"w:ins"}, <<>>, "Heading2", TextRuns) }

\* header and footer parts: each a sequence of paragraphs
HeaderPartA ==
  << Para({"w:ins"}, <<>>, "", TextRuns),
     Para({"w:ins"}, NumPr("1", <<"0">>), "", TextRuns) >>
HeaderPartB == << Para({"w:ins"}, <<>>, "Heading1", TextRuns) >>
FooterPartA ==
  << Para({}, NumPr("1", <<"0">>), "", TextRuns),
     Para({"w:ins"}, NumPr("1", <<"1">>), "", TextRuns),
     Para({"w:ins"}, <<>>, "", TextRuns) >>

HeaderFooterParts ==
  { [headerDocs |-> <<>>, footerDocs |-> <<>>],
    [headerDocs |-> <<HeaderPartA>>, footerDocs |-> <<>>],
    [headerDocs |-> <<HeaderPartA>>, footerDocs |-> <<FooterPartA>>],
    [headerDocs |-> <<HeaderPartA, HeaderPartB>>, footerDocs |-> <<FooterPartA>>] }

\* the paragraphs of the parts of one kind in the order the nested loops of
\* lines 669-699 (and 702-732) reach them, each with its source
RECURSIVE PartParagraphs(_, _)
PartParagraphs(docs, source) ==
  IF docs = <<>> THEN <<>>
  ELSE [i \in 1..Len(docs[1]) |-> [source |-> source, p |-> docs[1][i]]]
       \o PartParagraphs(Tail(docs), source)

InitExtract ==
  /\ criteria \in BodyCriteria
  /\ numberingXml \in BOOLEAN
  /\ stylesXml \in BOOLEAN
  /\ pc = "loop"
  /\ nParas = 0
  /\ paragraphElement = NoParagraph
  /\ currentSection = 1
  /\ currentPage = 1
  /\ heap = << initializeCounters(CounterDepth), initializeCounters(CounterDepth) >>
  /\ previousNumberingInfo = Null
  /\ numberingInfo = Undefined
  /\ interestingParagraphs = <<>>
  /\ lastProduced = [label |-> Undefined, section |-> 0]
  /\ lastTuple = [r \in {counters, styleCounters} |-> <<>>]
  /\ \E parts \in HeaderFooterParts :
       call = [fn |-> "extractParagraphs",
               headerDocs |-> parts.headerDocs, footerDocs |-> parts.footerDocs,
               work |-> PartParagraphs(parts.headerDocs, "header")
                          \o PartParagraphs(parts.footerDocs, "footer"),
               sectionForHeaders |-> 0, next |-> 0, bodyRecords |-> 0]

\* the body loop over the paragraphs of an extraction
ExtractBreakStep == BreakStep /\ paragraphElement' \in ExtractParagraphs

\* lines 663-664
HeaderFooterStart ==
  /\ pc = "done"
  /\ call.fn = "extractParagraphs"
  /\ pc' = "headers"
  /\ heap' = Append(heap, initializeCounters(CounterDepth))
  /\ call' = [call EXCEPT !.sectionForHeaders = 1, !.next = 1,
                          !.bodyRecords = Len(interestingParagraphs)]
  /\ UNCHANGED <<criteria, numberingXml, stylesXml, nParas, paragraphElement,
                 currentSection, currentPage, previousNumberingInfo, numberingInfo,
                 interestingParagraphs, lastProduced, lastTuple>>

\* lines 548-555: the record of an extracted header or footer paragraph
HeaderFooterRecord(p, info, sectionNumber, source) ==
  [section |-> IF Truthy(info) THEN <<>> ELSE <<sectionNumber>>,
   page |-> <<>>,
   numbering |-> info,
   style |-> extractParagraphStyle(p),
   source |-> source]

\* lines 528-557: one iteration of the loop of processDocumentParagraphs, on
\* the next paragraph of the section's header and footer parts
ProcessParagraphStep ==
  /\ pc = "headers"
  /\ call.next <= Len(call.work)
  /\ LET p == call.work[call.next].p
         source == call.work[call.next].source
         d == trackNumbering(p, numIdToAbstractNumId, abstractNumIdToFormat, heap,
                             headerFooterCounters)
         r == IF ~Truthy(d.ret)
              THEN trackStyleNumbering(p, styles, numIdToAbstractNumId,
                                       abstractNumIdToFormat, d.heap,
                                       headerFooterCounters)
              ELSE d
     IN IF IsExtracted(p, criteria)
        THEN /\ heap' = r.heap
             /\ interestingParagraphs' =
                  Append(interestingParagraphs,
                         HeaderFooterRecord(p, r.ret, call.sectionForHeaders, source))
        ELSE UNCHANGED <<heap, interestingParagraphs>>
  /\ call' = [call EXCEPT !.next = @ + 1]
  /\ UNCHANGED <<criteria, numberingXml, stylesXml, pc, nParas, paragraphElement,
                 currentSection, currentPage, previousNumberingInfo, numberingInfo,
                 lastProduced, lastTuple>>

\* line 698: the parts of a section are done and a further paragraph with a
\* w:sectPr follows in the second walk
NextSectionStep ==
  /\ pc = "headers"
  /\ call.next > Len(call.work)
  /\ call.sectionForHeaders < currentSection
  /\ call' = [call EXCEPT !.sectionForHeaders = @ + 1, !.next = 1]
  /\ UNCHANGED <<criteria, numberingXml, stylesXml, pc, nParas, paragraphElement,
                 currentSection, currentPage, heap, previousNumberingInfo,
                 numberingInfo, interestingParagraphs, lastProduced, lastTuple>>

\* line 734: the parts of the final section are done
ReturnStep ==
  /\ pc = "headers"
  /\ call.next > Len(call.work)
  /\ call.sectionForHeaders = currentSection
  /\ pc' = "returned"
  /\ UNCHANGED <<criteria, numberingXml, stylesXml, nParas, paragraphElement,
                 currentSection, currentPage, heap, previousNumberingInfo,
                 numberingInfo, interestingParagraphs, lastProduced, lastTuple, call>>

NextExtract ==
  \/ ExtractBreakStep \/ DirectStep \/ StyleStep \/ EmitStep \/ EndBody
  \/ HeaderFooterStart \/ ProcessParagraphStep \/ NextSectionStep \/ ReturnStep

SpecExtract == InitExtract /\ [][NextExtract]_vars

\* C15: without a numbering part no record of the body, of a header or of
\* a footer carries a numbering label, every body record carries a section
\* and a page, and no counter of any counter state ever advances, whatever
\* numbering attributes and styles the paragraphs have.
C15_NoNumberingPart ==
  ~numberingXml
    => /\ \A i \in 1..Len(interestingParagraphs) :
            /\ interestingParagraphs[i].numbering = Undefined
            /\ interestingParagraphs[i].source = "document"
                 => /\ Len(interestingParagraphs[i].section) = 1
                    /\ Len(interestingParagraphs[i].page) = 1
       /\ \A r \in DOMAIN heap : heap[r] = initializeCounters(CounterDepth)
       /\ numberingInfo = Undefined
       /\ previousNumberingInfo = Null

\* C15 witness: an extraction without numbering part but with styles part
\* has returned a list paragraph and a styled paragraph of the body and a
\* list paragraph and a styled paragraph of the headers
C15_Witness ==
  /\ ~numberingXml
  /\ stylesXml
  /\ pc = "returned"
  /\ call.headerDocs = <<HeaderPartA, HeaderPartB>>
  /\ Len(interestingParagraphs) >= 5
  /\ interestingParagraphs[1].source = "document"
  /\ interestingParagraphs[1].style = "Heading2"
  /\ nParas = 2
  /\ paragraphElement.numPr # <<>>
  /\ interestingParagraphs[2].source = "document"
  /\ \E i \in 1..Len(interestingParagraphs) :
       /\ interestingParagraphs[i].source = "header"
       /\ interestingParagraphs[i].style = "Heading1"

\* the header and footer paragraphs of the parts that pass the extraction
\* gate, in part order
ExtractedWork ==
  SelectSeq(call.work, LAMBDA w : IsExtracted(w.p, criteria))

\* record j after the body records is the one of the k-th extracted
\* header/footer paragraph for section n: same source and style, no page,
\* and either a label and no section, or no label and section n
SecondPassRecord(rec, w, n) ==
  /\ rec.source = w.source
  /\ rec.source \in {"header", "footer"}
  /\ rec.style = w.p.pStyle
  /\ rec.page = <<>>
  /\ \/ (Truthy(rec.numbering) /\ rec.section = <<>>)
     \/ (~Truthy(rec.numbering) /\ rec.section = <<n>>)

\* C18: the returned list is the body records in document order followed,
\* for each section 1..S in increasing order (S the section the body pass
\* ended with), by the records of the header parts and then of the footer
\* parts; such a record is located by section and source with no page
\* unless it has a label; the labels come from the header/footer counters,
\* and the second pass never touches the body's direct or style counters.
C18_SecondPass ==
  /\ [][ pc = "headers"
           => /\ Len(interestingParagraphs') >= Len(interestingParagraphs)
              /\ SubSeq(interestingParagraphs', 1, Len(interestingParagraphs))
                   = interestingParagraphs
              /\ heap'[counters] = heap[counters]
              /\ heap'[styleCounters] = heap[styleCounters]
              /\ (Len(interestingParagraphs') > Len(interestingParagraphs)
                  /\ Truthy(Last(interestingParagraphs').numbering))
                   => heap'[headerFooterCounters] # heap[headerFooterCounters] ]_vars
  /\ [][ pc # "headers" /\ pc' # "headers" /\ call.fn = "extractParagraphs"
           => \A i \in 1..Len(interestingParagraphs') :
                interestingParagraphs'[i].source = "document" ]_vars
  /\ [](pc = "returned"
         => LET K == Len(ExtractedWork)
                B == call.bodyRecords
            IN /\ Len(interestingParagraphs) = B + currentSection * K
               /\ \A i \in 1..B : interestingParagraphs[i].source = "document"
               /\ \A n \in 1..currentSection : \A k \in 1..K :
                    SecondPassRecord(interestingParagraphs[B + (n - 1) * K + k],
                                     ExtractedWork[k], n))

\* C18 witness: a two-section body with a list paragraph labelled "1.", two
\* header parts and a footer part: ten records follow the body records, the
\* headers' list paragraph is labelled "1." from its own counters and the
\* last footer paragraph is located by section 2
C18_Witness ==
  /\ pc = "returned"
  /\ currentSection = 2
  /\ call.bodyRecords = 2
  /\ interestingParagraphs[1].numbering = <<"1", ".">>
  /\ call.headerDocs = <<HeaderPartA, HeaderPartB>>
  /\ call.footerDocs = <<FooterPartA>>
  /\ Len(interestingParagraphs) = 12
  /\ interestingParagraphs[3].source = "header"
  /\ interestingParagraphs[3].section = <<1>>
  /\ interestingParagraphs[4].numbering = <<"1", ".">>
  /\ interestingParagraphs[12].source = "footer"
  /\ interestingParagraphs[12].section = <<2>>
  /\ heap[counters][1] = 1

\* "Sect {n}, Header" or "Sect {n}, Footer"
SectSourceText(n, source) ==
  <<"S", "e", "c", "t", " ">> \o NumToString(n) \o <<",", " ">>
  \o (IF source = "header" THEN <<"H", "e", "a", "d", "e", "r">>
      ELSE <<"F", "o", "o", "t", "e", "r">>)

EndsWithPUndefined(t) ==
  /\ Len(t) >= 11
  /\ SubSeq(t, Len(t) - 10, Len(t))
       = <<"p", " ", "u", "n", "d", "e", "f", "i", "n", "e", "d">>

\* C19: the Ref cell of every header or footer record without numbering
\* label reads "Sect {n}, Header" or "Sect {n}, Footer", and no record's Ref
\* cell reads "Sect {n}, p undefined".
C19_HeaderFooterRef ==
  \A i \in 1..Len(interestingParagraphs) :
    LET rec == interestingParagraphs[i]
    IN /\ (rec.source \in {"header", "footer"} /\ ~Truthy(rec.numbering))
            => RefCell(rec) = SectSourceText(rec.section[1], rec.source)
       /\ ~EndsWithPUndefined(RefCell(rec))

(***************************************************************************)
(* handleSaveFile (part_010, lines 60-63): one extractParagraphs task per  *)
(* file, awaited together by Promise.all.  A task gives way to the others  *)
(* at its awaits (wordUtils.ts, lines 570-579); from line 583 to its       *)
(* return it runs without interruption: call.running names the task that  *)
(* is in that part.  All arrays live in the one heap.  The documents have  *)
(* numbering and styles parts and no header or footer part.                *)
(***************************************************************************)
FileNames == <<"a.docx", "b.docx", "c.docx", "d.docx">>

\* the bodies of the documents of a batch
DocumentBodies ==
  { << Para({"w:ins"}, NumPr("1", <<"0">>), "", TextRuns),
       Para({"w:ins"}, <<>>, "", TextRuns) >>,
    << Para({"w:ins"}, NumPr("1", <<"0">>), "", TextRuns),
       Para({"w:ins"}, NumPr("1", <<"0">>), "", TextRuns) >>,
    << Para({"w:ins", "w:sectPr"}, <<>>, "", TextRuns),
       Para({"w:ins"}, <<>>, "Heading1", TextRuns) >> }

\* a file: its name, whether the package holds word/document.xml, its body
BatchFiles(i) ==
  { [name |-> FileNames[i], hasDocument |-> d, body |-> b] :
      d \in BOOLEAN, b \in DocumentBodies }

\* line 230: the message of the error thrown by getMainDocument, as the
\* sequence of its parts
DocumentNotFound == << "document.xml not found in the .docx file" >>

NewTask ==
  [pc |-> "start", i |-> 1, currentSection |-> 1, currentPage |-> 1,
   previousNumberingInfo |-> Null, counters |-> 0, styleCounters |-> 0,
   interestingParagraphs |-> <<>>, error |-> <<>>]

InitBatch ==
  /\ BodyIdle
  /\ criteria = Criteria(TRUE, FALSE, FALSE, FALSE, FALSE, FALSE)
  /\ paragraphElement = NoParagraph
  /\ heap = <<>>
  /\ \E fs \in [1..NumFiles -> UNION { BatchFiles(i) : i \in 1..NumFiles }] :
       /\ \A i \in 1..NumFiles : fs[i] \in BatchFiles(i)
       /\ call = [fn |-> "handleSaveFile", files |-> fs,
                  tasks |-> [i \in 1..NumFiles |-> NewTask],
                  running |-> 0, promise |-> "pending", error |-> <<>>,
                  extractedParagraphs |-> <<>>, fileNames |-> <<>>]

\* lines 609-611: style numbering when direct numbering gave no label d.ret
StyleAfterDirect(p, d, sref) ==
  IF ~Truthy(d.ret)
  THEN trackStyleNumbering(p, DocStyles, DocNumIdToAbstractNumId,
                           DocAbstractNumIdToFormat, d.heap, sref)
  ELSE d

\* lines 606-611: the label of paragraph p and the counters after it
TrackBoth(p, h, cref, sref) ==
  StyleAfterDirect(p, trackNumbering(p, DocNumIdToAbstractNumId,
                                     DocAbstractNumIdToFormat, h, cref), sref)

\* lines 613-658: carry-forward, record and new carry-forward, given the
\* markers m and the tracking result r of the paragraph
IterationResult(p, crit, m, r) ==
  LET info == EffectiveLabel(r.ret, m.previous)
  IN [section |-> m.section,
      page |-> m.page,
      previous |-> IF Truthy(info) THEN info ELSE m.previous,
      heap |-> r.heap,
      records |-> IF IsExtracted(p, crit)
                  THEN << BodyRecord(p, info, m.section, m.page) >>
                  ELSE <<>>]

\* BodyIteration with the state advancing for extracted paragraphs only
BodyIterationExtractedOnly(p, crit, section, page, previous, h, cref, sref) ==
  IF IsExtracted(p, crit)
  THEN IterationResult(p, crit, Markers(p, section, page, previous),
                       TrackBoth(p, h, cref, sref))
  ELSE [section |-> section, page |-> page, previous |-> previous,
        heap |-> h, records |-> <<>>]

\* lines 596-658 for one paragraph of a document with numbering and styles
\* parts: markers, direct numbering, style numbering, carry-forward, record
BodyIteration(p, crit, section, page, previous, h, cref, sref) ==
  IterationResult(p, crit, Markers(p, section, page, previous),
                  TrackBoth(p, h, cref, sref))

\* lines 570-571: the package is read and opened
TaskOpen(t) ==
  /\ call.fn = "handleSaveFile"
  /\ call.running = 0
  /\ call.tasks[t].pc = "start"
  /\ call' = [call EXCEPT !.tasks[t].pc = "opened"]
  /\ UNCHANGED <<bodyVars, heap>>

\* line 572: getMainDocument returns the body or throws
TaskGetMain(t) ==
  /\ call.fn = "handleSaveFile"
  /\ call.running = 0
  /\ call.tasks[t].pc = "opened"
  /\ call' = IF call.files[t].hasDocument
             THEN [call EXCEPT !.tasks[t].pc = "main"]
             ELSE [call EXCEPT !.tasks[t].pc = "rejected",
                               !.tasks[t].error = DocumentNotFound]
  /\ UNCHANGED <<bodyVars, heap>>

\* the arrays of a task taken from the arrays the first task allocated
TaskBeginShared(t) ==
  /\ call.fn = "handleSaveFile"
  /\ call.running = 0
  /\ call.tasks[t].pc = "main"
  /\ heap' = IF heap = <<>>
             THEN << initializeCounters(CounterDepth), initializeCounters(CounterDepth) >>
             ELSE heap
  /\ call' = [call EXCEPT !.running = t,
                          !.tasks[t].pc = "loop",
                          !.tasks[t].counters = 1,
                          !.tasks[t].styleCounters = 2]
  /\ UNCHANGED bodyVars

\* lines 573-590: the optional parts are read; then the task runs on its
\* own, with two arrays it allocates
TaskBegin(t) ==
  /\ call.fn = "handleSaveFile"
  /\ call.running = 0
  /\ call.tasks[t].pc = "main"
  /\ heap' = heap \o << initializeCounters(CounterDepth), initializeCounters(CounterDepth) >>
  /\ call' = [call EXCEPT !.running = t,
                          !.tasks[t].pc = "loop",
                          !.tasks[t].counters = Len(heap) + 1,
                          !.tasks[t].styleCounters = Len(heap) + 2]
  /\ UNCHANGED bodyVars

\* lines 592-659: one iteration of the body loop of the running task
TaskParagraph(t) ==
  /\ call.fn = "handleSaveFile"
  /\ call.running = t
  /\ call.tasks[t].pc = "loop"
  /\ call.tasks[t].i <= Len(call.files[t].body)
  /\ LET task == call.tasks[t]
         it == BodyIteration(call.files[t].body[task.i], criteria, task.currentSection,
                             task.currentPage, task.previousNumberingInfo, heap,
                             task.counters, task.styleCounters)
     IN /\ heap' = it.heap
        /\ call' = [call EXCEPT !.tasks[t].i = @ + 1,
                                !.tasks[t].currentSection = it.section,
                                !.tasks[t].currentPage = it.page,
                                !.tasks[t].previousNumberingInfo = it.previous,
                                !.tasks[t].interestingParagraphs = @ \o it.records]
  /\ UNCHANGED bodyVars

\* lines 661-734: the header/footer counters are allocated, there is no
\* header or footer part, the task returns its records
TaskReturn(t) ==
  /\ call.fn = "handleSaveFile"
  /\ call.running = t
  /\ call.tasks[t].pc = "loop"
  /\ call.tasks[t].i > Len(call.files[t].body)
  /\ heap' = Append(heap, initializeCounters(CounterDepth))
  /\ call' = [call EXCEPT !.running = 0, !.tasks[t].pc = "resolved"]
  /\ UNCHANGED bodyVars

\* part_010 line 61: Promise.all rejects with the error of a rejected task
PromiseAllReject ==
  /\ call.fn = "handleSaveFile"
  /\ call.running = 0
  /\ call.promise = "pending"
  /\ \E t \in 1..NumFiles :
       /\ call.tasks[t].pc = "rejected"
       /\ call' = [call EXCEPT !.promise = "rejected", !.error = call.tasks[t].error]
  /\ UNCHANGED <<bodyVars, heap>>

\* part_010 lines 61-62: Promise.all fulfils with the tasks' results in the
\* order of files; the names are taken in the same order
PromiseAllFulfil ==
  /\ call.fn = "handleSaveFile"
  /\ call.running = 0
  /\ call.promise = "pending"
  /\ \A t \in 1..NumFiles : call.tasks[t].pc = "resolved"
  /\ call' = [call EXCEPT
                !.promise = "fulfilled",
                !.extractedParagraphs =
                   [t \in 1..NumFiles |-> call.tasks[t].interestingParagraphs],
                !.fileNames = [t \in 1..NumFiles |-> call.files[t].name]]
  /\ UNCHANGED <<bodyVars, heap>>

NextBatch ==
  \/ \E t \in 1..NumFiles :
       TaskOpen(t) \/ TaskGetMain(t) \/ TaskBegin(t) \/ TaskParagraph(t) \/ TaskReturn(t)
  \/ PromiseAllReject
  \/ PromiseAllFulfil

SpecBatch == InitBatch /\ [][NextBatch]_vars

\* the message names the file
Mentions(message, name) == \E k \in 1..Len(message) : message[k] = name

\* C16: when a document's main-body part is missing, its extraction fails
\* with an error that identifies the file and returns no records for it, and
\* the failure stays with that document: the batch as a whole does not fail.
C16_MissingBodyPerFile ==
  call.fn = "handleSaveFile"
    => /\ \A t \in 1..NumFiles :
            ~call.files[t].hasDocument
              => /\ call.tasks[t].pc \in {"start", "opened", "rejected"}
                 /\ call.tasks[t].interestingParagraphs = <<>>
                 /\ call.tasks[t].pc = "rejected"
                      => Mentions(call.tasks[t].error, call.files[t].name)
       /\ call.promise # "rejected"

\* the records of a document extracted on its own, from paragraph i on,
\* with counters of its own
RECURSIVE AloneFrom(_, _, _, _, _, _, _)
AloneFrom(body, i, crit, section, page, previous, h) ==
  IF i > Len(body) THEN <<>>
  ELSE LET it == BodyIteration(body[i], crit, section, page, previous, h, 1, 2)
       IN it.records
          \o AloneFrom(body, i + 1, crit, it.section, it.page, it.previous, it.heap)

ExtractedAlone(file) ==
  AloneFrom(file.body, 1, criteria, 1, 1, Null,
            << initializeCounters(CounterDepth), initializeCounters(CounterDepth) >>)

\* C17: in every interleaving of the tasks of a batch, the records each
\* task returns are those of extracting its document alone, and the batch
\* result lists the documents in input order, aligned with their names.
C17_TasksIndependent ==
  call.fn = "handleSaveFile"
    => /\ \A t \in 1..NumFiles :
            call.tasks[t].pc = "resolved"
              => call.tasks[t].interestingParagraphs = ExtractedAlone(call.files[t])
       /\ call.promise = "fulfilled"
            => /\ Len(call.extractedParagraphs) = NumFiles
               /\ Len(call.fileNames) = NumFiles
               /\ \A t \in 1..NumFiles :
                    /\ call.extractedParagraphs[t] = ExtractedAlone(call.files[t])
                    /\ call.fileNames[t] = call.files[t].name

\* C17 witness: two documents of two list paragraphs each; the second task
\* ran first; both are labelled "1." and "2."
C17_Witness ==
  /\ call.fn = "handleSaveFile"
  /\ call.promise = "fulfilled"
  /\ call.tasks[2].counters < call.tasks[1].counters
  /\ \A t \in 1..2 :
       /\ Len(call.extractedParagraphs[t]) = 2
       /\ call.extractedParagraphs[t][1].numbering = <<"1", ".">>
       /\ call.extractedParagraphs[t][2].numbering = <<"2", ".">>

(***************************************************************************)
(* Annotation bodies of one extracted body paragraph (wordUtils.ts, lines  *)
(* 106-221 and 620-639).  A part is Null when the archive has none, else   *)
(* the sequence of its annotation elements in document order.              *)
(***************************************************************************)
AnnotationIds == {"1", "2"}

IdLists == UNION { [1..n -> AnnotationIds] : n \in 0..MaxIds }

\* utils.ts 17-32: an unparseable date is returned as it is
formatCommentDate(dateString) ==
  IF dateString = "2023-05-15T10:30:00Z" THEN "May 15, 2023" ELSE dateString

Annotation(id, author, initials, date, paragraphs) ==
  [id |-> id, author |-> author, initials |-> initials, date |-> date,
   paragraphs |-> paragraphs]

\* a part of the archive: absent, or its annotation elements
AbsentPart == [present |-> FALSE, elements |-> <<>>]
Part(elements) == [present |-> TRUE, elements |-> elements]

\* a null entry of a list of rendered paragraphs
NullParagraph == [type |-> "null"]

CommentsParts ==
  { AbsentPart,
    Part(<<>>),
    Part(<< Annotation("1", "Ann Lee", "AL", "2023-05-15T10:30:00Z", <<"c1", "c2">>) >>),
    Part(<< Annotation("1", "", "", "not a date", <<>>),
            Annotation("2", "Ann Lee", "", "", <<"c3">>) >>),
    Part(<< Annotation("2", "", "", "", <<"c4">>),
            Annotation("2", "Bo", "B", "", <<"c5">>) >>) }

NotesParts(k) ==
  { AbsentPart,
    Part(<< Annotation("1", "", "", "", << k \o "1" >>) >>),
    Part(<< Annotation("1", "", "", "", <<>>),
            Annotation("2", "", "", "", << k \o "2", k \o "3" >>) >>) }

\* Array.prototype.find over the elements of the part: the first with the id
FindAnnotation(part, id) ==
  LET elements == part.elements
  IN IF \E k \in 1..Len(elements) : elements[k].id = id
     THEN LET k == CHOOSE j \in 1..Len(elements) :
                     /\ elements[j].id = id
                     /\ \A i \in 1..(j - 1) : elements[i].id # id
          IN << elements[k] >>
     ELSE <<>>

\* lines 41-62, as far as the annotation bodies need it
buildDocumentParagraph(p) == [type |-> "paragraph", element |-> p]

ContentParagraphs(element) ==
  [k \in 1..Len(element.paragraphs) |-> buildDocumentParagraph(element.paragraphs[k])]

IdentificationParagraph(text, italics) ==
  [type |-> "identification", text |-> text, italics |-> italics]

\* lines 116-154
CommentEntry(found, id) ==
  IF found = <<>> THEN << NullParagraph >>
  ELSE LET element == found[1]
           commenterName == IF element.initials # "" THEN element.initials
                                                   ELSE element.author
           formattedDate == IF element.date # "" THEN formatCommentDate(element.date)
                                                 ELSE ""
           details == IF commenterName # ""
                      THEN << " (", commenterName >>
                           \o (IF formattedDate # "" THEN << ", ", formattedDate >>
                                                     ELSE <<>>)
                           \o << ")" >>
                      ELSE IF formattedDate # ""
                           THEN << " (", formattedDate, ")" >>
                           ELSE <<>>
       IN IF Len(element.paragraphs) = 0 THEN << NullParagraph >>
          ELSE << IdentificationParagraph(<< "Comment ", id >> \o details \o << ": " >>,
                                          TRUE) >>
               \o ContentParagraphs(element)

RECURSIVE buildComments(_, _)
buildComments(ids, xmlComments) ==
  IF ids = <<>> THEN <<>>
  ELSE CommentEntry(FindAnnotation(xmlComments, Head(ids)), Head(ids))
       \o buildComments(Tail(ids), xmlComments)

\* lines 173-187
FootnoteEntry(found, id) ==
  IF found = <<>> THEN << NullParagraph >>
  ELSE IF Len(found[1].paragraphs) = 0 THEN << NullParagraph >>
  ELSE << IdentificationParagraph(<< "Footnote ", id, ": " >>, FALSE) >>
       \o ContentParagraphs(found[1])

RECURSIVE buildFootnotes(_, _)
buildFootnotes(ids, xmlFootnotes) ==
  IF ids = <<>> THEN <<>>
  ELSE FootnoteEntry(FindAnnotation(xmlFootnotes, Head(ids)), Head(ids))
       \o buildFootnotes(Tail(ids), xmlFootnotes)

\* lines 206-220
EndnoteEntry(found, id) ==
  IF found = <<>> THEN << NullParagraph >>
  ELSE IF Len(found[1].paragraphs) = 0 THEN << NullParagraph >>
  ELSE << IdentificationParagraph(<< "Endnote ", id, ": " >>, FALSE) >>
       \o ContentParagraphs(found[1])

\* a missing endnote contributes nothing
EndnoteEntrySkipMissing(found, id) ==
  IF found = <<>> THEN <<>> ELSE EndnoteEntry(found, id)

RECURSIVE buildEndnotesSkipMissing(_, _)
buildEndnotesSkipMissing(ids, xmlEndnotes) ==
  IF ids = <<>> THEN <<>>
  ELSE EndnoteEntrySkipMissing(FindAnnotation(xmlEndnotes, Head(ids)), Head(ids))
       \o buildEndnotesSkipMissing(Tail(ids), xmlEndnotes)

RECURSIVE buildEndnotes(_, _)
buildEndnotes(ids, xmlEndnotes) ==
  IF ids = <<>> THEN <<>>
  ELSE EndnoteEntry(FindAnnotation(xmlEndnotes, Head(ids)), Head(ids))
       \o buildEndnotes(Tail(ids), xmlEndnotes)

\* lines 620-624: the ids of the paragraph, an empty result
InitAnnotations ==
  /\ BodyIdle
  /\ criteria = Criteria(FALSE, FALSE, FALSE, TRUE, TRUE, TRUE)
  /\ paragraphElement = NoParagraph
  /\ heap = <<>>
  /\ \E cids \in IdLists, fids \in IdLists, eids \in IdLists,
        cx \in CommentsParts, fx \in NotesParts("f"), ex \in NotesParts("e") :
       call = [fn |-> "annotations", pc |-> "comments",
               commentIds |-> cids, footnoteIds |-> fids, endnoteIds |-> eids,
               commentsXml |-> cx, footnotesXml |-> fx, endnotesXml |-> ex,
               allComments |-> <<>>]

\* lines 626-629
AddComments ==
  /\ call.fn = "annotations"
  /\ call.pc = "comments"
  /\ call' = [call EXCEPT
       !.allComments =
          IF call.commentsXml.present /\ Len(call.commentIds) > 0
          THEN @ \o buildComments(call.commentIds, call.commentsXml)
          ELSE @,
       !.pc = "footnotes"]
  /\ UNCHANGED << criteria, paragraphElement, heap, bodyVars >>

\* lines 631-634
AddFootnotes ==
  /\ call.fn = "annotations"
  /\ call.pc = "footnotes"
  /\ call' = [call EXCEPT
       !.allComments =
          IF call.footnotesXml.present /\ Len(call.footnoteIds) > 0
          THEN @ \o buildFootnotes(call.footnoteIds, call.footnotesXml)
          ELSE @,
       !.pc = "endnotes"]
  /\ UNCHANGED << criteria, paragraphElement, heap, bodyVars >>

\* lines 636-639
AddEndnotes ==
  /\ call.fn = "annotations"
  /\ call.pc = "endnotes"
  /\ call' = [call EXCEPT
       !.allComments =
          IF call.endnotesXml.present /\ Len(call.endnoteIds) > 0
          THEN @ \o buildEndnotes(call.endnoteIds, call.endnotesXml)
          ELSE @,
       !.pc = "built"]
  /\ UNCHANGED << criteria, paragraphElement, heap, bodyVars >>

NextAnnotations == AddComments \/ AddFootnotes \/ AddEndnotes

SpecAnnotations == InitAnnotations /\ [][NextAnnotations]_vars

\* what an entry of the annotation bodies is: null, the identification of
\* an annotation of some kind and id, or a body paragraph
EntryShape(entry) ==
  IF entry = NullParagraph THEN Null
  ELSE IF entry.type = "identification"
       THEN << "identification", entry.text[1], entry.text[2] >>
       ELSE << "body", entry.element >>

Shapes(entries) == [k \in 1..Len(entries) |-> EntryShape(entries[k])]

Matching(part, id) ==
  { k \in 1..Len(part.elements) : part.elements[k].id = id }

FirstMatching(part, id) ==
  part.elements[CHOOSE k \in Matching(part, id) : \A j \in Matching(part, id) : k <= j]

\* the entries one id stands for; emptyIsNull says what an annotation
\* without body paragraphs stands for
IdEntries(label, part, id, emptyIsNull) ==
  IF Matching(part, id) = {} THEN << Null >>
  ELSE LET body == FirstMatching(part, id).paragraphs
       IN IF body = <<>> /\ emptyIsNull THEN << Null >>
          ELSE << << "identification", label, id >> >>
               \o [k \in 1..Len(body) |-> << "body", body[k] >>]

RECURSIVE KindEntries(_, _, _, _)
KindEntries(label, part, ids, emptyIsNull) ==
  IF ~part.present \/ ids = <<>> THEN <<>>
  ELSE IdEntries(label, part, Head(ids), emptyIsNull)
       \o KindEntries(label, part, Tail(ids), emptyIsNull)

AnnotationBodies(emptyIsNull) ==
  KindEntries("Comment ", call.commentsXml, call.commentIds, emptyIsNull)
  \o KindEntries("Footnote ", call.footnotesXml, call.footnoteIds, emptyIsNull)
  \o KindEntries("Endnote ", call.endnotesXml, call.endnoteIds, emptyIsNull)

\* C20 as stated: the annotation bodies are, for comments, then footnotes,
\* then endnotes, and for each id in the order of the id list, one null when
\* no annotation of the part has the id, else one identification paragraph
\* followed by the annotation's body paragraphs; an absent part contributes
\* nothing.
C20_AnnotationBodies ==
  (call.fn = "annotations" /\ call.pc = "built")
    => Shapes(call.allComments) = AnnotationBodies(FALSE)

\* C20 amended: as above, except that a matching annotation without body
\* paragraphs yields exactly one null and no identification paragraph.
C20_AnnotationBodiesNonEmpty ==
  (call.fn = "annotations" /\ call.pc = "built")
    => Shapes(call.allComments) = AnnotationBodies(TRUE)

\* C20 witness: comment 1 has no body paragraph, comment 2 has one;
\* footnote 2 does not exist, footnote 1 has one paragraph; the paragraph
\* refers to an endnote and the archive has no endnotes part
C20_Witness ==
  /\ call.fn = "annotations"
  /\ call.pc = "built"
  /\ call.commentIds = << "1", "2" >>
  /\ call.footnoteIds = << "2", "1" >>
  /\ call.endnoteIds = << "1" >>
  /\ call.endnotesXml = AbsentPart
  /\ Shapes(call.allComments)
       = << Null, << "identification", "Comment ", "2" >>, << "body", "c3" >>,
            Null, << "identification", "Footnote ", "1" >>, << "body", "f1" >> >>

(***************************************************************************)
(* Runs (wordUtils.ts, lines 396-499; styleUtils.ts, lines 18-50).  A run  *)
(* element has at most one w:rPr and a list of child nodes; the options of *)
(* a TextRun are its text, its style ("" when undefined) and its format.   *)
(***************************************************************************)
\* a w:rPr element: the names of its flag elements, and the w:val of its
\* w:highlight, w:u and w:vertAlign (<<>> without the element)
RunPropsElement(flags, highlight, u, vertAlign) ==
  [flags |-> flags, highlight |-> highlight, u |-> u, vertAlign |-> vertAlign]

RunPropsElements ==
  { <<>>,
    << RunPropsElement({}, <<>>, <<>>, <<>>) >>,
    << RunPropsElement({"w:b", "w:strike"}, <<>>, << "single" >>, <<>>) >>,
    << RunPropsElement({"w:i"}, << "yellow" >>, <<>>, << "superscript" >>) >> }

\* the format of a run without any: every option undefined
NoFormat ==
  [bold |-> FALSE, italics |-> FALSE, allCaps |-> FALSE, smallCaps |-> FALSE,
   strike |-> FALSE, doubleStrike |-> FALSE, highlight |-> "", underline |-> "",
   superScript |-> FALSE, subScript |-> FALSE]

\* styleUtils.ts 18-50: an object without keys when the run has no w:rPr,
\* else the ten options and the style
buildRunProps(runPropsElement, style) ==
  IF runPropsElement = <<>>
  THEN [hasKeys |-> FALSE, style |-> "", format |-> NoFormat]
  ELSE LET e == runPropsElement[1]
       IN [hasKeys |-> TRUE,
           style |-> style,
           format |->
             [bold |-> "w:b" \in e.flags,
              italics |-> "w:i" \in e.flags,
              allCaps |-> "w:caps" \in e.flags,
              smallCaps |-> "w:smallcaps" \in e.flags,
              strike |-> "w:strike" \in e.flags,
              doubleStrike |-> "w:dstrike" \in e.flags,
              highlight |-> IF e.highlight # <<>> THEN e.highlight[1] ELSE "",
              underline |-> IF e.u # <<>> THEN e.u[1] ELSE "",
              superScript |-> e.vertAlign = << "superscript" >>,
              subScript |-> e.vertAlign = << "subscript" >>]]

\* new TextRun({ text, style, ...runProps }): the keys of runProps, the
\* style among them, replace those written before the spread
TextRun(text, style, runProps) ==
  [text |-> text,
   style |-> IF runProps.hasKeys THEN runProps.style ELSE style,
   format |-> runProps.format]

\* child nodes of a run
TextNode(name, text) == [nodeName |-> name, textContent |-> text, id |-> <<>>]
ReferenceNode(name, id) == [nodeName |-> name, textContent |-> <<>>, id |-> id]

RunChildNodes ==
  { TextNode("w:t", << "a" >>),
    TextNode("w:t", <<>>),
    TextNode("w:delText", << "d" >>),
    TextNode("w:tab", <<>>),
    TextNode("w:lastRenderedPageBreak", <<>>),
    ReferenceNode("w:commentReference", << "7" >>),
    ReferenceNode("w:commentReference", <<>>),
    ReferenceNode("w:footnoteReference", << "2" >>),
    ReferenceNode("w:endnoteReference", << "3" >>) }

RunElement(rPr, childNodes) == [rPr |-> rPr, childNodes |-> childNodes]

RunElements ==
  { RunElement(rPr, cs) :
      rPr \in RunPropsElements,
      cs \in UNION { [1..n -> RunChildNodes] : n \in 0..MaxRunChildren } }

ReferenceNames == {"w:commentReference", "w:footnoteReference", "w:endnoteReference"}

AnchorWord(name) ==
  CASE name = "w:commentReference" -> "Comment"
    [] name = "w:footnoteReference" -> "Footnote"
    [] name = "w:endnoteReference" -> "Endnote"

AnchorStyle(name) ==
  CASE name = "w:commentReference" -> "CommentAnchor"
    [] name = "w:footnoteReference" -> "FootnoteAnchor"
    [] name = "w:endnoteReference" -> "EndnoteAnchor"

\* lines 434-435: `[Comment ${id}]`, '[Comment]' without an id
AnchorText(name, id) ==
  IF id # <<>> THEN << "[", AnchorWord(name), " " >> \o id \o << "]" >>
  ELSE << "[", AnchorWord(name), "]" >>

\* lines 403-421: what a child adds to the text
AddedText(child) ==
  CASE child.nodeName \in {"w:t", "w:delText"} -> child.textContent
    [] child.nodeName = "w:noBreakHyphen" -> << "U+2011" >>
    [] child.nodeName = "w:softHyphen" -> << "U+00AD" >>
    [] child.nodeName = "w:cr" -> << "\r" >>
    [] child.nodeName = "w:br" -> << "\n" >>
    [] child.nodeName = "w:tab" -> << "\t" >>
    [] OTHER -> <<>>

\* RunChild with the text before a reference left to accumulate
RunChildNoFlush(results, currentText, runProps, child) ==
  IF child.nodeName \in ReferenceNames
  THEN [results |-> Append(results, TextRun(AnchorText(child.nodeName, child.id),
                                            AnchorStyle(child.nodeName), runProps)),
        currentText |-> currentText]
  ELSE [results |-> results, currentText |-> currentText \o AddedText(child)]

\* lines 402-482: one turn of the forEach
RunChild(results, currentText, runProps, child) ==
  IF child.nodeName \in ReferenceNames
  THEN [results |-> (IF currentText # <<>>
                     THEN Append(results, TextRun(currentText, "", runProps))
                     ELSE results)
                    \o << TextRun(AnchorText(child.nodeName, child.id),
                                  AnchorStyle(child.nodeName), runProps) >>,
        currentText |-> <<>>]
  ELSE [results |-> results, currentText |-> currentText \o AddedText(child)]

\* lines 396-400
InitRun ==
  /\ BodyIdle
  /\ criteria = NoCriteria
  /\ paragraphElement = NoParagraph
  /\ heap = <<>>
  /\ \E r \in RunElements, style \in {"", "Deletion"} :
       call = [fn |-> "buildTextRun", pc |-> "forEach", runElement |-> r,
               style |-> style, runProps |-> buildRunProps(r.rPr, style),
               results |-> <<>>, currentText |-> <<>>, next |-> 1, ret |-> <<>>]

\* lines 402-482
RunChildStep ==
  /\ call.fn = "buildTextRun"
  /\ call.pc = "forEach"
  /\ call.next <= Len(call.runElement.childNodes)
  /\ LET r == RunChild(call.results, call.currentText, call.runProps,
                       call.runElement.childNodes[call.next])
     IN call' = [call EXCEPT !.results = r.results,
                             !.currentText = r.currentText,
                             !.next = @ + 1]
  /\ UNCHANGED << bodyVars, heap >>

\* lines 485-494
RunReturn ==
  /\ call.fn = "buildTextRun"
  /\ call.pc = "forEach"
  /\ call.next > Len(call.runElement.childNodes)
  /\ LET results == IF call.currentText # <<>>
                    THEN Append(call.results, TextRun(call.currentText, "", call.runProps))
                    ELSE call.results
     IN call' = [call EXCEPT
                   !.results = results,
                   !.ret = IF Len(results) > 0 THEN results
                           ELSE << TextRun(<<>>, "", call.runProps) >>,
                   !.pc = "returned"]
  /\ UNCHANGED << bodyVars, heap >>

NextRun == RunChildStep \/ RunReturn

SpecRun == InitRun /\ [][NextRun]_vars

IsReference(child) == child.nodeName \in ReferenceNames

\* the positions of the references among the child nodes, in order
RECURSIVE ReferencesFrom(_, _)
ReferencesFrom(nodes, k) ==
  IF k > Len(nodes) THEN <<>>
  ELSE (IF IsReference(nodes[k]) THEN << k >> ELSE <<>>) \o ReferencesFrom(nodes, k + 1)

\* the text of the child nodes from..to, in order
RECURSIVE TextBetween(_, _, _)
TextBetween(nodes, from, to) ==
  IF from > to THEN <<>>
  ELSE AddedText(nodes[from]) \o TextBetween(nodes, from + 1, to)

ContainsSeq(s, part) ==
  \E i \in 0..(Len(s) - Len(part)) : SubSeq(s, i + 1, i + Len(part)) = part

\* the segments the claim describes, as [kind, text, node]: for each
\* reference the text since the previous one (if any) and the anchor, then
\* the text after the last reference (if any)
RECURSIVE SegmentsFrom(_, _, _)
SegmentsFrom(nodes, refs, start) ==
  IF refs = <<>>
  THEN LET rest == TextBetween(nodes, start, Len(nodes))
       IN IF rest # <<>> THEN << [kind |-> "text", text |-> rest, node |-> 0] >> ELSE <<>>
  ELSE LET r == Head(refs)
           before == TextBetween(nodes, start, r - 1)
       IN (IF before # <<>> THEN << [kind |-> "text", text |-> before, node |-> 0] >>
                            ELSE <<>>)
          \o << [kind |-> "anchor", text |-> <<>>, node |-> r] >>
          \o SegmentsFrom(nodes, Tail(refs), r + 1)

ExpectedSegments(nodes) ==
  LET segs == SegmentsFrom(nodes, ReferencesFrom(nodes, 1), 1)
  IN IF segs = <<>> THEN << [kind |-> "text", text |-> <<>>, node |-> 0] >> ELSE segs

\* C21: the segments of a run are, in document order, the non-empty texts
\* between references and one anchor per reference whose label contains the
\* reference id; a run without text and references gives one empty segment.
C21_SegmentsSplitAtReferences ==
  (call.fn = "buildTextRun" /\ call.pc = "returned")
    => LET nodes == call.runElement.childNodes
           segs == ExpectedSegments(nodes)
       IN /\ Len(call.ret) = Len(segs)
          /\ \A k \in 1..Len(segs) :
               IF segs[k].kind = "text"
               THEN call.ret[k].text = segs[k].text
               ELSE /\ ContainsSeq(call.ret[k].text, nodes[segs[k].node].id)
                    /\ ContainsSeq(call.ret[k].text,
                                   << AnchorWord(nodes[segs[k].node].nodeName) >>)
          /\ (nodes = <<>>) => call.ret = << TextRun(<<>>, "", call.runProps) >>

\* C21 witness: text, a comment reference, text: three segments
C21_Witness ==
  /\ call.fn = "buildTextRun"
  /\ call.pc = "returned"
  /\ call.runElement.childNodes
       = << TextNode("w:t", << "a" >>), ReferenceNode("w:commentReference", << "7" >>),
            TextNode("w:delText", << "d" >>) >>
  /\ Len(call.ret) = 3
  /\ call.ret[1].text = << "a" >>
  /\ call.ret[2].text = << "[", "Comment", " ", "7", "]" >>
  /\ call.ret[3].text = << "d" >>

\* C23: every anchor segment has the anchor style of its reference, whatever
\* the run's properties and the change style; every segment has the run's
\* format.
C23_AnchorStylePrecedence ==
  (call.fn = "buildTextRun" /\ call.pc = "returned")
    => LET nodes == call.runElement.childNodes
           segs == ExpectedSegments(nodes)
       IN \A k \in 1..Len(segs) :
            /\ k <= Len(call.ret)
            /\ call.ret[k].format = buildRunProps(call.runElement.rPr, "").format
            /\ segs[k].kind = "anchor"
                 => call.ret[k].style = AnchorStyle(nodes[segs[k].node].nodeName)

(***************************************************************************)
(* buildDocumentParagraph (wordUtils.ts, lines 41-62).  A direct child of  *)
(* the paragraph has a node name and, in document order, the w:r elements  *)
(* it is or contains.                                                      *)
(***************************************************************************)
\* buildTextRun as a function: the forEach from child k on, then the return
RECURSIVE RunFrom(_, _, _, _, _)
RunFrom(runElement, runProps, results, currentText, k) ==
  IF k > Len(runElement.childNodes)
  THEN LET flushed == IF currentText # <<>>
                      THEN Append(results, TextRun(currentText, "", runProps))
                      ELSE results
       IN IF Len(flushed) > 0 THEN flushed ELSE << TextRun(<<>>, "", runProps) >>
  ELSE LET r == RunChild(results, currentText, runProps, runElement.childNodes[k])
       IN RunFrom(runElement, runProps, r.results, r.currentText, k + 1)

buildTextRun(runElement, style) ==
  RunFrom(runElement, buildRunProps(runElement.rPr, style), <<>>, <<>>, 1)

ParagraphRuns ==
  { RunElement(<<>>, << TextNode("w:t", << "a" >>) >>),
    RunElement(<< RunPropsElement({"w:b"}, <<>>, <<>>, <<>>) >>,
               << TextNode("w:t", << "b" >>) >>),
    RunElement(<< RunPropsElement({}, <<>>, <<>>, <<>>) >>,
               << ReferenceNode("w:commentReference", << "7" >>),
                  TextNode("w:t", << "c" >>) >>) }

ChildElement(name, runs) == [nodeName |-> name, runs |-> runs]

WrapperNames == {"w:del", "w:ins", "w:moveFrom", "w:moveTo"}

ParagraphChildren ==
  { ChildElement("w:r", << r >>) : r \in ParagraphRuns }
  \cup { ChildElement(w, rs) :
           w \in WrapperNames,
           rs \in UNION { [1..n -> ParagraphRuns] : n \in 0..1 } }
  \cup { ChildElement("w:del", << r1, r2 >>) : r1 \in ParagraphRuns, r2 \in ParagraphRuns }
  \cup { ChildElement("w:pPr", <<>>) }
  \cup { ChildElement("w:hyperlink", << r >>) : r \in ParagraphRuns }

NullChild == [text |-> << "null" >>, style |-> "", format |-> NoFormat]
NotNullChild(child) == child # NullChild

RECURSIVE RunsWithStyle(_, _)
RunsWithStyle(runs, style) ==
  IF runs = <<>> THEN <<>>
  ELSE buildTextRun(Head(runs), style) \o RunsWithStyle(Tail(runs), style)

\* lines 43-56: the flatMap callback; null is kept as an item
ParagraphChild(child) ==
  CASE child.nodeName = "w:r" -> buildTextRun(child.runs[1], "")
    [] child.nodeName = "w:del" -> RunsWithStyle(child.runs, "Deletion")
    [] child.nodeName = "w:ins" -> RunsWithStyle(child.runs, "Insertion")
    [] child.nodeName = "w:moveFrom" -> RunsWithStyle(child.runs, "MoveFrom")
    [] child.nodeName = "w:moveTo" -> RunsWithStyle(child.runs, "MoveTo")
    [] OTHER -> << NullChild >>

InitParagraph ==
  /\ BodyIdle
  /\ criteria = NoCriteria
  /\ paragraphElement = NoParagraph
  /\ heap = <<>>
  /\ \E cs \in UNION { [1..n -> ParagraphChildren] : n \in 0..MaxChildren } :
       call = [fn |-> "buildDocumentParagraph", pc |-> "flatMap", children |-> cs,
               mapped |-> <<>>, next |-> 1, ret |-> <<>>]

\* lines 42-57: one child of the flatMap
ParagraphChildStep ==
  /\ call.fn = "buildDocumentParagraph"
  /\ call.pc = "flatMap"
  /\ call.next <= Len(call.children)
  /\ call' = [call EXCEPT !.mapped = @ \o ParagraphChild(call.children[call.next]),
                          !.next = @ + 1]
  /\ UNCHANGED << bodyVars, heap >>

\* lines 57-61: the filter and the paragraph
ParagraphReturn ==
  /\ call.fn = "buildDocumentParagraph"
  /\ call.pc = "flatMap"
  /\ call.next > Len(call.children)
  /\ call' = [call EXCEPT !.ret = SelectSeq(call.mapped, NotNullChild),
                          !.pc = "returned"]
  /\ UNCHANGED << bodyVars, heap >>

NextParagraph == ParagraphChildStep \/ ParagraphReturn

SpecParagraph == InitParagraph /\ [][NextParagraph]_vars

ChangeStyleOf(name) ==
  CASE name = "w:r" -> ""
    [] name = "w:del" -> "Deletion"
    [] name = "w:ins" -> "Insertion"
    [] name = "w:moveFrom" -> "MoveFrom"
    [] name = "w:moveTo" -> "MoveTo"

\* the segments of the runs of a child, each with the tag of the child
RECURSIVE TaggedSegments(_, _)
TaggedSegments(runs, tag) ==
  IF runs = <<>> THEN <<>>
  ELSE LET segs == ExpectedSegments(Head(runs).childNodes)
       IN [k \in 1..Len(segs) |-> [kind |-> segs[k].kind, text |-> segs[k].text,
                                   tag |-> tag]]
          \o TaggedSegments(Tail(runs), tag)

RECURSIVE ParagraphSegments(_)
ParagraphSegments(children) ==
  IF children = <<>> THEN <<>>
  ELSE (IF Head(children).nodeName \in WrapperNames \cup {"w:r"}
        THEN TaggedSegments(Head(children).runs, ChangeStyleOf(Head(children).nodeName))
        ELSE <<>>)
       \o ParagraphSegments(Tail(children))

\* C22: the rendered paragraph is, in the order of the direct children, the
\* segments of each plain run and of each run of a change wrapper; the text
\* segments of a plain run have no change style, those of a wrapper's run
\* have the style of the wrapper; other children contribute nothing.
C22_ChildrenInOrderTagged ==
  (call.fn = "buildDocumentParagraph" /\ call.pc = "returned")
    => LET segs == ParagraphSegments(call.children)
       IN /\ Len(call.ret) = Len(segs)
          /\ \A k \in 1..Len(segs) :
               segs[k].kind = "text"
                 => /\ call.ret[k].text = segs[k].text
                    /\ call.ret[k].style = segs[k].tag

\* C22 without the tag: order and texts only
C22_ChildrenInOrder ==
  (call.fn = "buildDocumentParagraph" /\ call.pc = "returned")
    => LET segs == ParagraphSegments(call.children)
       IN /\ Len(call.ret) = Len(segs)
          /\ \A k \in 1..Len(segs) :
               segs[k].kind = "text" => call.ret[k].text = segs[k].text

\* some run has a bracket somewhere in its visible text
BracketInVisibleText(p) ==
  \E k \in 1..Len(p.runs) :
    \E i \in 1..Len(p.runs[k].t) :
      Includes(p.runs[k].t[i], "[") \/ Includes(p.runs[k].t[i], "]")

SquareBracketsOnly == Criteria(FALSE, FALSE, TRUE, FALSE, FALSE, FALSE)

\* C24: with only the squareBrackets criterion enabled, a paragraph with
\* non-blank text is extracted exactly when the visible text of one of its
\* runs contains '[' or ']', wherever in the run's visible text it stands.
C24_SquareBracketsAllText ==
  (call.fn = "classify" /\ call.pc = "returned" /\ criteria = SquareBracketsOnly
     /\ SomeNonBlankText(paragraphElement))
    => (call.extracted <=> BracketInVisibleText(paragraphElement))

\* C24 for runs with at most one visible text element
C24_SquareBracketsFirstText ==
  (call.fn = "classify" /\ call.pc = "returned" /\ criteria = SquareBracketsOnly
     /\ SomeNonBlankText(paragraphElement)
     /\ \A k \in 1..Len(paragraphElement.runs) : Len(paragraphElement.runs[k].t) <= 1)
    => (call.extracted <=> BracketInVisibleText(paragraphElement))

(***************************************************************************)
(* buildSections (wordUtils.ts, lines 743-862): one report section per     *)
(* document, a table with a header row and one row per extracted           *)
(* paragraph.                                                              *)
(***************************************************************************)
\* the annotation-body lists of the extracted paragraphs of a batch
CommentLists ==
  { <<>>,
    << NullParagraph >>,
    << buildDocumentParagraph("c1") >>,
    << NullParagraph, buildDocumentParagraph("c2") >> }

ExtractedRecord(comments) ==
  [section |-> << 1 >>, page |-> << 1 >>, numbering |-> Undefined,
   style |-> "", source |-> "document", comments |-> comments]

ParagraphGroups ==
  UNION { [1..n -> { ExtractedRecord(c) : c \in CommentLists }] : n \in 0..MaxRows }

SectionNames == {"a.docx", ""}

\* true iff some extracted paragraph of some document has a non-null entry
\* in its annotation-body list
RECURSIVE hasAnyAnnotations(_)
hasAnyAnnotations(extractedParagraphs) ==
  IF extractedParagraphs = <<>> THEN FALSE
  ELSE LET paragraphGroup == Head(extractedParagraphs)
       IN \/ \E i \in 1..Len(paragraphGroup) :
               \E k \in 1..Len(paragraphGroup[i].comments) :
                 paragraphGroup[i].comments[k] # NullParagraph
          \/ hasAnyAnnotations(Tail(extractedParagraphs))

\* lines 795-832: the header row
HeaderRow == << "Ref", "Source", "Style", "Paragraph", "Comment" >>

\* source.charAt(0).toUpperCase() + source.slice(1)
Capitalized(source) ==
  CASE source = "document" -> "Document"
    [] source = "header" -> "Header"
    [] source = "footer" -> "Footer"

EmptyParagraph == [type |-> "paragraph", element |-> ""]

\* lines 836-855: the row of an extracted paragraph
TableRow(rec) ==
  [ref |-> RefCell(rec),
   source |-> Capitalized(rec.source),
   style |-> rec.style,
   comments |-> [k \in 1..Len(rec.comments) |->
                   IF rec.comments[k] # NullParagraph THEN rec.comments[k]
                   ELSE EmptyParagraph]]

\* lines 750-860: the section of a document
Section(paragraphGroup, fileName) ==
  [fileName |-> fileName,
   header |-> HeaderRow,
   rows |-> [i \in 1..Len(paragraphGroup) |-> TableRow(paragraphGroup[i])]]

InitSections ==
  /\ BodyIdle
  /\ criteria = NoCriteria
  /\ paragraphElement = NoParagraph
  /\ heap = <<>>
  /\ \E n \in 0..MaxBatch :
       \E groups \in [1..n -> ParagraphGroups], names \in [1..n -> SectionNames] :
         call = [fn |-> "buildSections", pc |-> "map",
                 extractedParagraphs |-> groups, names |-> names,
                 sections |-> <<>>, error |-> <<>>]

\* lines 744-748: a document without a file name
SectionThrow ==
  /\ call.fn = "buildSections"
  /\ call.pc = "map"
  /\ Len(call.sections) < Len(call.extractedParagraphs)
  /\ call.names[Len(call.sections) + 1] = ""
  /\ call' = [call EXCEPT !.pc = "thrown",
                          !.error = << "File name at index ", Len(call.sections),
                                       " is undefined." >>]
  /\ UNCHANGED << bodyVars, heap >>

\* lines 744-860: the section of the next document
SectionStep ==
  /\ call.fn = "buildSections"
  /\ call.pc = "map"
  /\ Len(call.sections) < Len(call.extractedParagraphs)
  /\ call.names[Len(call.sections) + 1] # ""
  /\ call' = [call EXCEPT !.sections =
                Append(@, Section(call.extractedParagraphs[Len(@) + 1],
                                  call.names[Len(@) + 1]))]
  /\ UNCHANGED << bodyVars, heap >>

SectionsReturn ==
  /\ call.fn = "buildSections"
  /\ call.pc = "map"
  /\ Len(call.sections) = Len(call.extractedParagraphs)
  /\ call' = [call EXCEPT !.pc = "returned"]
  /\ UNCHANGED << bodyVars, heap >>

NextSections == SectionThrow \/ SectionStep \/ SectionsReturn

SpecSections == InitSections /\ [][NextSections]_vars

\* some document has an extracted paragraph with an annotation body
SomeAnnotationBody(batch) ==
  \E d \in 1..Len(batch) : \E i \in 1..Len(batch[d]) :
    { k \in 1..Len(batch[d][i].comments) : batch[d][i].comments[k] # NullParagraph } # {}

HasCell(row, name) == \E k \in 1..Len(row) : row[k] = name

\* C25: hasAnyAnnotations of the batch is true exactly when some extracted
\* paragraph has a non-null annotation body, and every table of the report
\* has its annotation column exactly when it is true.
C25_AnnotationColumn ==
  (call.fn = "buildSections" /\ call.pc = "returned")
    => /\ hasAnyAnnotations(call.extractedParagraphs)
            <=> SomeAnnotationBody(call.extractedParagraphs)
       /\ \A d \in 1..Len(call.sections) :
            HasCell(call.sections[d].header, "Comment")
              <=> hasAnyAnnotations(call.extractedParagraphs)

\* C25, the value alone
C25_HasAnyAnnotations ==
  call.fn = "buildSections"
    => (hasAnyAnnotations(call.extractedParagraphs)
          <=> SomeAnnotationBody(call.extractedParagraphs))

(***************************************************************************)
(* formatNumber called on a number and a format kind (part_008, lines      *)
(* 169-194).                                                               *)
(***************************************************************************)
FormatKinds ==
  {"decimal", "lowerLetter", "upperLetter", "lowerRoman", "upperRoman", "bullet",
   "ordinal", "cardinalText", "ordinalText", "numberInDash", "chicago"}

InitFormat ==
  /\ BodyIdle
  /\ criteria = NoCriteria
  /\ paragraphElement = NoParagraph
  /\ heap = <<>>
  /\ \E num \in (-2)..MaxNumber, format \in FormatKinds :
       call = [fn |-> "formatNumber", pc |-> "ready", num |-> num, format |-> format,
               ret |-> <<>>]

FormatCall ==
  /\ call.fn = "formatNumber"
  /\ call.pc = "ready"
  /\ call' = [call EXCEPT !.pc = "returned", !.ret = formatNumber(call.num, call.format)]
  /\ UNCHANGED << bodyVars, heap >>

NextFormat == FormatCall

SpecFormat == InitFormat /\ [][NextFormat]_vars

\* the number a string of letters of the alphabet stands for in bijective
\* base 26, -1 when some character is not of the alphabet
RECURSIVE LetterValue(_, _)
LetterValue(s, alphabet) ==
  IF s = <<>> THEN 0
  ELSE LET c == s[Len(s)]
           front == LetterValue(SubSeq(s, 1, Len(s) - 1), alphabet)
       IN IF front < 0 \/ ~(\E d \in 1..26 : alphabet[d] = c) THEN -1
          ELSE 26 * front + (CHOOSE d \in 1..26 : alphabet[d] = c)

\* the Roman numeral digit by digit
RomanOnes == << <<>>, <<"i">>, <<"i", "i">>, <<"i", "i", "i">>, <<"i", "v">>, <<"v">>,
                <<"v", "i">>, <<"v", "i", "i">>, <<"v", "i", "i", "i">>, <<"i", "x">> >>
RomanTens == << <<>>, <<"x">>, <<"x", "x">>, <<"x", "x", "x">>, <<"x", "l">>, <<"l">>,
                <<"l", "x">>, <<"l", "x", "x">>, <<"l", "x", "x", "x">>, <<"x", "c">> >>
RomanHundreds == << <<>>, <<"c">>, <<"c", "c">>, <<"c", "c", "c">>, <<"c", "d">>, <<"d">>,
                    <<"d", "c">>, <<"d", "c", "c">>, <<"d", "c", "c", "c">>, <<"c", "m">> >>

ReferenceRoman(n) ==
  [k \in 1..(n \div 1000) |-> "m"]
  \o RomanHundreds[((n \div 100) % 10) + 1]
  \o RomanTens[((n \div 10) % 10) + 1]
  \o RomanOnes[(n % 10) + 1]

UpperOf(c) ==
  IF \E d \in 1..26 : LowerAlphabet[d] = c
  THEN UpperAlphabet[CHOOSE d \in 1..26 : LowerAlphabet[d] = c]
  ELSE c

Upper(s) == [k \in 1..Len(s) |-> UpperOf(s[k])]

ReferenceSuffix(n) ==
  IF n % 100 \in {11, 12, 13} THEN <<"t", "h">>
  ELSE CASE n % 10 = 1 -> <<"s", "t">>
         [] n % 10 = 2 -> <<"n", "d">>
         [] n % 10 = 3 -> <<"r", "d">>
         [] OTHER -> <<"t", "h">>

\* C26: for n >= 1 the letters are the bijective base-26 numeral of n, the
\* Roman numerals the subtractive numeral with the thousand symbol repeated,
\* the ordinal n with st, nd, rd or th (th after 11, 12, 13), an unknown
\* kind the decimal string; letters and Roman numerals of n <= 0 are empty.
C26_ReferenceNumerals ==
  (call.fn = "formatNumber" /\ call.pc = "returned")
    => LET n == call.num
           ret == call.ret
       IN CASE call.format = "lowerLetter" ->
                 IF n >= 1 THEN LetterValue(ret, LowerAlphabet) = n ELSE ret = <<>>
            [] call.format = "upperLetter" ->
                 IF n >= 1 THEN LetterValue(ret, UpperAlphabet) = n ELSE ret = <<>>
            [] call.format = "lowerRoman" ->
                 IF n >= 1 THEN ret = ReferenceRoman(n) ELSE ret = <<>>
            [] call.format = "upperRoman" ->
                 IF n >= 1 THEN ret = Upper(ReferenceRoman(n)) ELSE ret = <<>>
            [] call.format = "ordinal" ->
                 n >= 1 => ret = NatToString(n) \o ReferenceSuffix(n)
            [] call.format = "chicago" ->
                 n >= 1 => ret = NatToString(n)
            [] OTHER -> TRUE

\* C26 witness: 703 is aaa, 4000 is mmmm, 112 is 112th
C26_Witness ==
  /\ call.fn = "formatNumber"
  /\ call.pc = "returned"
  /\ \/ call.num = 703 /\ call.format = "lowerLetter" /\ call.ret = <<"a", "a", "a">>
     \/ call.num = 4000 /\ call.format = "lowerRoman" /\ call.ret = <<"m", "m", "m", "m">>
     \/ call.num = 112 /\ call.format = "ordinal"
          /\ call.ret = <<"1", "1", "2", "t", "h">>

SmallWords ==
  << <<"z", "e", "r", "o">>, <<"o", "n", "e">>, <<"t", "w", "o">>,
     <<"t", "h", "r", "e", "e">>, <<"f", "o", "u", "r">>,
     <<"f", "i", "v", "e">>, <<"s", "i", "x">>, <<"s", "e", "v", "e", "n">>,
     <<"e", "i", "g", "h", "t">>, <<"n", "i", "n", "e">>, <<"t", "e", "n">>,
     <<"e", "l", "e", "v", "e", "n">>, <<"t", "w", "e", "l", "v", "e">>,
     <<"t", "h", "i", "r", "t", "e", "e", "n">>,
     <<"f", "o", "u", "r", "t", "e", "e", "n">>,
     <<"f", "i", "f", "t", "e", "e", "n">>,
     <<"s", "i", "x", "t", "e", "e", "n">>,
     <<"s", "e", "v", "e", "n", "t", "e", "e", "n">>,
     <<"e", "i", "g", "h", "t", "e", "e", "n">>,
     <<"n", "i", "n", "e", "t", "e", "e", "n">> >>
SmallOrdinals ==
  << <<"z", "e", "r", "o", "t", "h">>, <<"f", "i", "r", "s", "t">>,
     <<"s", "e", "c", "o", "n", "d">>, <<"t", "h", "i", "r", "d">>,
     <<"f", "o", "u", "r", "t", "h">>, <<"f", "i", "f", "t", "h">>,
     <<"s", "i", "x", "t", "h">>, <<"s", "e", "v", "e", "n", "t", "h">>,
     <<"e", "i", "g", "h", "t", "h">>, <<"n", "i", "n", "t", "h">>,
     <<"t", "e", "n", "t", "h">>,
     <<"e", "l", "e", "v", "e", "n", "t", "h">>,
     <<"t", "w", "e", "l", "f", "t", "h">>,
     <<"t", "h", "i", "r", "t", "e", "e", "n", "t", "h">>,
     <<"f", "o", "u", "r", "t", "e", "e", "n", "t", "h">>,
     <<"f", "i", "f", "t", "e", "e", "n", "t", "h">>,
     <<"s", "i", "x", "t", "e", "e", "n", "t", "h">>,
     <<"s", "e", "v", "e", "n", "t", "e", "e", "n", "t", "h">>,
     <<"e", "i", "g", "h", "t", "e", "e", "n", "t", "h">>,
     <<"n", "i", "n", "e", "t", "e", "e", "n", "t", "h">> >>
TensWords ==
  << <<"t", "w", "e", "n", "t", "y">>, <<"t", "h", "i", "r", "t", "y">>,
     <<"f", "o", "r", "t", "y">>, <<"f", "i", "f", "t", "y">>,
     <<"s", "i", "x", "t", "y">>, <<"s", "e", "v", "e", "n", "t", "y">>,
     <<"e", "i", "g", "h", "t", "y">>, <<"n", "i", "n", "e", "t", "y">> >>
TensOrdinals ==
  << <<"t", "w", "e", "n", "t", "i", "e", "t", "h">>,
     <<"t", "h", "i", "r", "t", "i", "e", "t", "h">>,
     <<"f", "o", "r", "t", "i", "e", "t", "h">>,
     <<"f", "i", "f", "t", "i", "e", "t", "h">>,
     <<"s", "i", "x", "t", "i", "e", "t", "h">>,
     <<"s", "e", "v", "e", "n", "t", "i", "e", "t", "h">>,
     <<"e", "i", "g", "h", "t", "i", "e", "t", "h">>,
     <<"n", "i", "n", "e", "t", "i", "e", "t", "h">> >>

Hundred == <<" ", "h", "u", "n", "d", "r", "e", "d">>

\* the English words of n in 0..999
RECURSIVE ReferenceCardinal(_)
ReferenceCardinal(n) ==
  IF n < 20 THEN SmallWords[n + 1]
  ELSE IF n < 100
       THEN TensWords[(n \div 10) - 1]
            \o (IF n % 10 # 0 THEN <<"-">> \o SmallWords[(n % 10) + 1] ELSE <<>>)
  ELSE SmallWords[(n \div 100) + 1] \o Hundred
       \o (IF n % 100 # 0 THEN <<" ">> \o ReferenceCardinal(n % 100) ELSE <<>>)

\* the English ordinal words of n in 0..999
RECURSIVE ReferenceOrdinal(_)
ReferenceOrdinal(n) ==
  IF n < 20 THEN SmallOrdinals[n + 1]
  ELSE IF n < 100
       THEN IF n % 10 = 0 THEN TensOrdinals[(n \div 10) - 1]
            ELSE TensWords[(n \div 10) - 1] \o <<"-">> \o SmallOrdinals[(n % 10) + 1]
  ELSE SmallWords[(n \div 100) + 1] \o Hundred
       \o (IF n % 100 # 0 THEN <<" ">> \o ReferenceOrdinal(n % 100) ELSE <<"t", "h">>)

\* C27: cardinalText and ordinalText give the English words of every n in
\* 0..999 and the bare decimal string of every n >= 1000.
C27_WordsOrDecimal ==
  (call.fn = "formatNumber" /\ call.pc = "returned" /\ call.num >= 0)
    => /\ call.format = "cardinalText"
            => call.ret = IF call.num <= 999 THEN ReferenceCardinal(call.num)
                          ELSE NatToString(call.num)
       /\ call.format = "ordinalText"
            => call.ret = IF call.num <= 999 THEN ReferenceOrdinal(call.num)
                          ELSE NatToString(call.num)

\* C27 below 1000, and for cardinalText from 1000 on
C27_WordsBelowThousand ==
  (call.fn = "formatNumber" /\ call.pc = "returned" /\ call.num >= 0)
    => /\ call.format = "cardinalText"
            => call.ret = IF call.num <= 999 THEN ReferenceCardinal(call.num)
                          ELSE NatToString(call.num)
       /\ (call.format = "ordinalText" /\ call.num <= 999)
            => call.ret = ReferenceOrdinal(call.num)

(***************************************************************************)
(* Manual numbering (part_008, lines 504-637): detectManualNumbering, then *)
(* validateManualNumbering on what it detected.  A regular expression      *)
(* ^(TOKEN)SEPARATOR is the class of its token and the kind of its         *)
(* separator.                                                              *)
(***************************************************************************)
LowerRomanLetters == {"i", "v", "x", "l", "c", "d", "m"}
UpperRomanLetters == {"I", "V", "X", "L", "C", "D", "M"}
LowerLetters == { LowerAlphabet[d] : d \in 1..26 }
UpperLetters == { UpperAlphabet[d] : d \in 1..26 }

\* \d+(?:\.\d+)*
IsDecimalLevels(s) ==
  /\ s # <<>>
  /\ \A k \in 1..Len(s) : IsDigit(s[k]) \/ s[k] = "."
  /\ IsDigit(s[1])
  /\ IsDigit(s[Len(s)])
  /\ \A k \in 1..(Len(s) - 1) : ~(s[k] = "." /\ s[k + 1] = ".")

\* [set]+ when max = 0, [set]{1,max} otherwise
IsLetters(s, set, max) ==
  /\ Len(s) >= 1
  /\ (max = 0 \/ Len(s) <= max)
  /\ \A k \in 1..Len(s) : s[k] \in set

\* the core of a token of class c
IsCore(s, c) ==
  CASE c = "decimal" -> IsDecimalLevels(s)
    [] c = "lowerAlpha" -> IsLetters(s, LowerLetters, 0)
    [] c = "upperAlpha" -> IsLetters(s, UpperLetters, 0)
    [] c = "lowerAlpha2" -> IsLetters(s, LowerLetters, 2)
    [] c = "upperAlpha2" -> IsLetters(s, UpperLetters, 2)
    [] c = "lowerRoman" -> IsLetters(s, LowerRomanLetters, 0)
    [] c = "upperRoman" -> IsLetters(s, UpperRomanLetters, 0)

Pattern(shape, class) == [shape |-> shape, class |-> class]

\* lines 510-555, in order
ManualPatterns ==
  << Pattern("period", "decimal"), Pattern("period", "lowerAlpha"),
     Pattern("period", "upperAlpha"), Pattern("period", "lowerRoman"),
     Pattern("period", "upperRoman"),
     Pattern("parens", "decimal"), Pattern("parens", "lowerAlpha"),
     Pattern("parens", "upperAlpha"), Pattern("parens", "lowerRoman"),
     Pattern("parens", "upperRoman"),
     Pattern("bare", "decimal"), Pattern("bare", "lowerAlpha2"),
     Pattern("bare", "upperAlpha2"), Pattern("bare", "lowerRoman"),
     Pattern("bare", "upperRoman") >>

\* the capture group of a pattern
IsToken(s, pattern) ==
  CASE pattern.shape = "period" ->
         /\ Len(s) >= 2
         /\ s[Len(s)] = "."
         /\ IsCore(SubSeq(s, 1, Len(s) - 1), pattern.class)
    [] pattern.shape = "parens" ->
         /\ Len(s) >= 3
         /\ s[1] = "("
         /\ s[Len(s)] = ")"
         /\ IsCore(SubSeq(s, 2, Len(s) - 1), pattern.class)
    [] pattern.shape = "bare" -> IsCore(s, pattern.class)

\* the number of white space characters s begins with
RECURSIVE LeadingSpaces(_)
LeadingSpaces(s) ==
  IF s # <<>> /\ IsSpace(s[1]) THEN 1 + LeadingSpaces(Tail(s)) ELSE 0

\* how much of s the separator of the pattern takes, 0 when it fails:
\* \s+ after a period or parentheses, (?:\t|\s{2,}) after a bare token
SeparatorLength(s, pattern) ==
  IF pattern.shape = "bare"
  THEN IF s # <<>> /\ s[1] = "\t" THEN 1
       ELSE IF LeadingSpaces(s) >= 2 THEN LeadingSpaces(s) ELSE 0
  ELSE LeadingSpaces(s)

\* String.prototype.match for a pattern: <<>> or << [whole, group] >>
Match(text, pattern) ==
  LET ends == { k \in 1..Len(text) :
                  /\ IsToken(SubSeq(text, 1, k), pattern)
                  /\ SeparatorLength(SubSeq(text, k + 1, Len(text)), pattern) > 0 }
  IN IF ends = {} THEN <<>>
     ELSE LET k == CHOOSE e \in ends : \A f \in ends : f <= e
          IN << [whole |-> k + SeparatorLength(SubSeq(text, k + 1, Len(text)), pattern),
                 group |-> SubSeq(text, 1, k)] >>

\* lines 559-569: the loop over the patterns from pattern i on
RECURSIVE DetectFrom(_, _)
DetectFrom(trimmedText, i) ==
  IF i > Len(ManualPatterns) THEN Undefined
  ELSE LET match == Match(trimmedText, ManualPatterns[i])
       IN IF match # <<>>
             /\ Len(Trim(SubSeq(trimmedText, match[1].whole + 1, Len(trimmedText)))) > 0
          THEN match[1].group
          ELSE DetectFrom(trimmedText, i + 1)

detectManualNumbering(paragraphText) ==
  IF paragraphText = <<>> \/ Len(Trim(paragraphText)) = 0 THEN Undefined
  ELSE DetectFrom(Trim(paragraphText), 1)

StartsWith(s, p) == Len(s) >= Len(p) /\ SubSeq(s, 1, Len(p)) = p

\* [set]+\.? or [set]{1,max}\.?  (the whole string)
IsLettersOptionalPeriod(s, set, max) ==
  \/ IsLetters(s, set, max)
  \/ Len(s) >= 1 /\ s[Len(s)] = "." /\ IsLetters(SubSeq(s, 1, Len(s) - 1), set, max)

\* \([set]+\) or \([set]{1,max}\)  (the whole string)
IsLettersInParens(s, set, max) ==
  /\ Len(s) >= 2
  /\ s[1] = "("
  /\ s[Len(s)] = ")"
  /\ IsLetters(SubSeq(s, 2, Len(s) - 1), set, max)

\* lines 620-630
startsWithValidPattern(numberingText) ==
  \/ IsDigit(numberingText[1])
  \/ IsLettersOptionalPeriod(numberingText, LowerLetters, 2)
  \/ IsLettersOptionalPeriod(numberingText, UpperLetters, 2)
  \/ IsLettersOptionalPeriod(numberingText, LowerRomanLetters, 0)
  \/ IsLettersOptionalPeriod(numberingText, UpperRomanLetters, 0)
  \/ (Len(numberingText) >= 2 /\ numberingText[1] = "(" /\ IsDigit(numberingText[2]))
  \/ IsLettersInParens(numberingText, LowerLetters, 2)
  \/ IsLettersInParens(numberingText, UpperLetters, 2)
  \/ IsLettersInParens(numberingText, LowerRomanLetters, 0)
  \/ IsLettersInParens(numberingText, UpperRomanLetters, 0)

\* validateManualNumbering without the test of the separator
validateManualNumberingAnySeparator(numberingText, paragraphText) ==
  IF numberingText = <<>> \/ paragraphText = <<>> THEN FALSE
  ELSE LET trimmedText == Trim(paragraphText)
           afterNumbering == SubSeq(trimmedText, Len(numberingText) + 1, Len(trimmedText))
           content == SkipSpace(afterNumbering)
       IN /\ StartsWith(trimmedText, numberingText)
          /\ Len(content) >= 3
          /\ Len(numberingText) <= 10
          /\ startsWithValidPattern(numberingText)

\* lines 582-637
validateManualNumbering(numberingText, paragraphText) ==
  IF numberingText = <<>> \/ paragraphText = <<>> THEN FALSE
  ELSE LET trimmedText == Trim(paragraphText)
           afterNumbering == SubSeq(trimmedText, Len(numberingText) + 1, Len(trimmedText))
           followedByWhitespace ==
             \/ LeadingSpaces(afterNumbering) >= 2
             \/ (afterNumbering # <<>> /\ afterNumbering[1] = "\t")
           content == SkipSpace(afterNumbering)
       IN /\ StartsWith(trimmedText, numberingText)
          /\ followedByWhitespace
          /\ Len(content) >= 3
          /\ Len(numberingText) <= 10
          /\ startsWithValidPattern(numberingText)

\* the characters short tokens are made of
TokenChars == {"1", ".", "a", "i", "I", "(", ")"}

ShortPrefixes == UNION { [1..n -> TokenChars] : n \in 0..MaxTokenLen }

LongPrefixes ==
  { <<"w", "w", "w", ".", "e", "x", "a", "m", "p", "l", "e", ".", "c", "o", "m">>,
    <<"1", "2", "3", "4", "5", "6", "7", "8", "9", "0", "1", ".">>,
    <<"1", "2", "3", "4", "5", "6", "7", "8", "9", ".">>,
    <<"i", "i", "i", "i", "i", "i", "i", "i", "i", "i", "i">>,
    <<"a", "b", "c", ".">>,
    <<"m", "i", "x", ".">> }

Separators == { <<>>, <<" ">>, <<" ", " ">>, <<"\t">>, <<" ", "\t">> }

Contents ==
  { <<>>, <<"X">>, <<"F", "o">>, <<"F", "o", "o">>, <<"a", " ", "b">>,
    <<"F", "o", "o", " ", "b", "a", "r", " ", "b", "a", "z">> }

ManualTexts ==
  { lead \o prefix \o sep \o content :
      lead \in { <<>>, <<" ">> }, prefix \in ShortPrefixes \cup LongPrefixes,
      sep \in Separators, content \in Contents }

InitManual ==
  /\ BodyIdle
  /\ criteria = NoCriteria
  /\ paragraphElement = NoParagraph
  /\ heap = <<>>
  /\ \E text \in ManualTexts :
       call = [fn |-> "manualNumbering", pc |-> "detect", text |-> text,
               detected |-> Undefined, isValid |-> FALSE, result |-> Undefined]

\* const detected = detectManualNumbering(text)
DetectStep ==
  /\ call.fn = "manualNumbering"
  /\ call.pc = "detect"
  /\ call' = [call EXCEPT !.detected = detectManualNumbering(call.text),
                          !.pc = "validate"]
  /\ UNCHANGED << bodyVars, heap >>

\* const isValid = detected ? validateManualNumbering(detected, text) : false
ValidateStep ==
  /\ call.fn = "manualNumbering"
  /\ call.pc = "validate"
  /\ LET isValid == IF Truthy(call.detected)
                    THEN validateManualNumbering(call.detected, call.text)
                    ELSE FALSE
     IN call' = [call EXCEPT !.isValid = isValid,
                             !.result = IF isValid THEN call.detected ELSE Undefined,
                             !.pc = "returned"]
  /\ UNCHANGED << bodyVars, heap >>

NextManual == DetectStep \/ ValidateStep

SpecManual == InitManual /\ [][NextManual]_vars


DigitChars == {"0", "1", "2", "3", "4", "5", "6", "7", "8", "9"}

IsMultiLevelDecimal(s) ==
  /\ s # <<>>
  /\ s[1] \in DigitChars
  /\ s[Len(s)] \in DigitChars
  /\ \A k \in 1..Len(s) : s[k] \in DigitChars \cup {"."}
  /\ \A k \in 1..Len(s) : s[k] = "." => s[k - 1] \in DigitChars /\ s[k + 1] \in DigitChars

AllIn(s, set) == s # <<>> /\ \A k \in 1..Len(s) : s[k] \in set

\* a multi-level decimal, one or two letters, or a string of Roman-numeral
\* letters
IsNumberingCore(s) ==
  \/ IsMultiLevelDecimal(s)
  \/ (Len(s) <= 2 /\ (AllIn(s, LowerLetters) \/ AllIn(s, UpperLetters)))
  \/ AllIn(s, LowerRomanLetters)
  \/ AllIn(s, UpperRomanLetters)

\* a core, bare, with a trailing period or in parentheses
IsNumberingToken(s) ==
  \/ IsNumberingCore(s)
  \/ (Len(s) >= 2 /\ s[Len(s)] = "." /\ IsNumberingCore(SubSeq(s, 1, Len(s) - 1)))
  \/ (Len(s) >= 3 /\ s[1] = "(" /\ s[Len(s)] = ")"
        /\ IsNumberingCore(SubSeq(s, 2, Len(s) - 1)))

\* the text begins with the token, then a tab or two white space
\* characters, then three characters of content
TokenThenContent(text, token) ==
  /\ Len(token) <= 10
  /\ Len(text) > Len(token)
  /\ SubSeq(text, 1, Len(token)) = token
  /\ LET rest == SubSeq(text, Len(token) + 1, Len(text))
         blanks == { k \in 1..Len(rest) : \A j \in 1..k : IsSpace(rest[j]) }
     IN /\ (rest[1] = "\t" \/ 2 \in blanks)
        /\ \E k \in blanks : k + 1 \notin blanks /\ Len(rest) - k >= 3

ManualReturned == call.fn = "manualNumbering" /\ call.pc = "returned"

RejectedExamples ==
  { <<"1", ".", "F", "o", "o">>,
    <<"w", "w", "w", ".", "e", "x", "a", "m", "p", "l", "e", ".", "c", "o", "m",
      "\t", "F", "o", "o">>,
    <<"1", ".", " ", "X">> }

AcceptedExample == <<"1", ".", "\t", "F", "o", "o", " ", "b", "a", "r", " ", "b", "a", "z">>

\* C28: detection followed by validation accepts a text only when its
\* trimmed text begins with a numbering token of at most ten characters,
\* followed by a tab or two white space characters and three characters of
\* content, and the accepted value is that token; "1.<tab>Foo bar baz"
\* gives "1.", and "1.Foo", "www.example.com<tab>Foo" and "1. X" give no
\* numbering.
C28_AcceptsTokenThenContent ==
  ManualReturned =>
    /\ call.result # Undefined =>
         /\ IsNumberingToken(call.result)
         /\ TokenThenContent(Trim(call.text), call.result)
    /\ call.text = AcceptedExample => call.result = <<"1", ".">>
    /\ call.text \in RejectedExamples => call.result = Undefined

C28_Witness ==
  /\ ManualReturned
  /\ call.text = AcceptedExample
  /\ call.result = <<"1", ".">>

(***************************************************************************)
(* The body pass of extractParagraphs (wordUtils.ts, lines 586-659) run    *)
(* on one document under two criteria selections, one call after the       *)
(* other.                                                                  *)
(***************************************************************************)
\* the criteria selections compared
Selections ==
  { Criteria(TRUE, FALSE, FALSE, FALSE, FALSE, FALSE),
    Criteria(FALSE, FALSE, FALSE, TRUE, FALSE, FALSE),
    Criteria(TRUE, FALSE, FALSE, TRUE, FALSE, FALSE) }

\* paragraphs that some selections extract and others do not
SelectionParagraphs ==
  { Para({"w:ins"}, NumPr("1", <<"0">>), "", TextRuns),
    Para({"w:commentRangeStart"}, NumPr("1", <<"0">>), "", TextRuns),
    Para({"w:ins", "w:commentRangeStart"}, NumPr("1", <<"0">>), "", TextRuns),
    Para({"w:ins", "w:commentRangeStart"}, <<>>, "", TextRuns),
    Para({"w:ins", "w:sectPr"}, <<>>, "", TextRuns),
    Para({"w:commentRangeStart", "w:lastRenderedPageBreak"}, <<>>, "", TextRuns),
    Para({"w:ins", "w:commentRangeStart"}, <<>>, "Heading1", TextRuns),
    Para({"w:commentRangeStart"}, <<>>, "Heading1", TextRuns) }

SelectionBodies == UNION { [1..n -> SelectionParagraphs] : n \in 1..MaxBody }

\* lines 586-590: the state of a call before the first paragraph
NewPass ==
  [i |-> 1, currentSection |-> 1, currentPage |-> 1, previousNumberingInfo |-> Null,
   heap |-> << initializeCounters(CounterDepth), initializeCounters(CounterDepth) >>,
   records |-> <<>>]

InitSelections ==
  /\ BodyIdle
  /\ criteria = NoCriteria
  /\ paragraphElement = NoParagraph
  /\ heap = <<>>
  /\ \E body \in SelectionBodies, first \in Selections, second \in Selections :
       /\ first # second
       /\ call = [fn |-> "extractParagraphs", body |-> body,
                  criteria |-> << first, second >>,
                  passes |-> << NewPass, NewPass >>]

\* lines 596-658: one paragraph of the body pass of call n; records holds,
\* per paragraph, what the iteration pushed
PassIteration(n) ==
  LET pass == call.passes[n]
      it == BodyIteration(call.body[pass.i], call.criteria[n], pass.currentSection,
                          pass.currentPage, pass.previousNumberingInfo, pass.heap, 1, 2)
  IN call' = [call EXCEPT !.passes[n] =
                [i |-> pass.i + 1, currentSection |-> it.section,
                 currentPage |-> it.page, previousNumberingInfo |-> it.previous,
                 heap |-> it.heap, records |-> Append(pass.records, it.records)]]

\* the call under the first selection
FirstPass ==
  /\ call.fn = "extractParagraphs"
  /\ call.passes[1].i <= Len(call.body)
  /\ PassIteration(1)
  /\ UNCHANGED << bodyVars, heap >>

\* the call under the second selection, after the first has returned
SecondPass ==
  /\ call.fn = "extractParagraphs"
  /\ call.passes[1].i > Len(call.body)
  /\ call.passes[2].i <= Len(call.body)
  /\ PassIteration(2)
  /\ UNCHANGED << bodyVars, heap >>

NextSelections == FirstPass \/ SecondPass

SpecSelections == InitSelections /\ [][NextSelections]_vars

Location(rec) == [numbering |-> rec.numbering, section |-> rec.section, page |-> rec.page]

\* the paragraphs both calls have taken and both have extracted
ExtractedByBoth ==
  { i \in 1..Len(call.passes[2].records) :
      call.passes[1].records[i] # <<>> /\ call.passes[2].records[i] # <<>> }

\* C29: a body paragraph extracted under two criteria selections has the
\* same location (numbering label or section and page) in both, and after
\* the same paragraphs the section, the page, the carry-forward label and
\* the counters of the two calls are the same.
C29_LocationIndependentOfCriteria ==
  call.fn = "extractParagraphs" =>
    /\ \A i \in ExtractedByBoth :
         Location(call.passes[1].records[i][1]) = Location(call.passes[2].records[i][1])
    /\ call.passes[2].i > Len(call.body) =>
         /\ call.passes[1].currentSection = call.passes[2].currentSection
         /\ call.passes[1].currentPage = call.passes[2].currentPage
         /\ call.passes[1].previousNumberingInfo = call.passes[2].previousNumberingInfo
         /\ call.passes[1].heap = call.passes[2].heap

\* a paragraph extracted by both calls after a numbered paragraph that only
\* one of them extracted
C29_Witness ==
  /\ call.fn = "extractParagraphs"
  /\ \E i \in ExtractedByBoth, j \in 1..Len(call.passes[2].records) :
       /\ j < i
       /\ call.body[j].numPr # <<>>
       /\ (call.passes[1].records[j] = <<>>) # (call.passes[2].records[j] = <<>>)
       /\ Truthy(call.passes[2].records[i][1].numbering)

(***************************************************************************)
(* The header and footer pass (wordUtils.ts, lines 514-561 and 661-701)    *)
(* over the paragraphs of the parts of one section, under two criteria     *)
(* selections, one call of extractParagraphs after the other.              *)
(***************************************************************************)
\* lines 528-557: one iteration of the loop of processDocumentParagraphs
\* for a document with numbering and styles parts
ProcessParagraph(p, crit, source, sectionNumber, h, ref) ==
  IF IsExtracted(p, crit)
  THEN LET r == TrackBoth(p, h, ref, ref)
       IN [heap |-> r.heap,
           records |-> << HeaderFooterRecord(p, r.ret, sectionNumber, source) >>]
  ELSE [heap |-> h, records |-> <<>>]

\* line 664: the state of the pass before the first part
NewPartPass == [i |-> 1, heap |-> << initializeCounters(CounterDepth) >>, records |-> <<>>]

InitPartSelections ==
  /\ BodyIdle
  /\ criteria = NoCriteria
  /\ paragraphElement = NoParagraph
  /\ heap = <<>>
  /\ \E part \in SelectionBodies, first \in Selections, second \in Selections,
        source \in {"header", "footer"} :
       /\ first # second
       /\ call = [fn |-> "processDocumentParagraphs", part |-> part, source |-> source,
                  criteria |-> << first, second >>,
                  passes |-> << NewPartPass, NewPartPass >>]

\* one paragraph of the part in call n; records holds, per paragraph, what
\* the iteration pushed
PartIteration(n) ==
  LET pass == call.passes[n]
      it == ProcessParagraph(call.part[pass.i], call.criteria[n], call.source, 1,
                             pass.heap, 1)
  IN call' = [call EXCEPT !.passes[n] =
                [i |-> pass.i + 1, heap |-> it.heap,
                 records |-> Append(pass.records, it.records)]]

\* the pass under the first selection
FirstPartPass ==
  /\ call.fn = "processDocumentParagraphs"
  /\ call.passes[1].i <= Len(call.part)
  /\ PartIteration(1)
  /\ UNCHANGED << bodyVars, heap >>

\* the pass under the second selection, after the first has returned
SecondPartPass ==
  /\ call.fn = "processDocumentParagraphs"
  /\ call.passes[1].i > Len(call.part)
  /\ call.passes[2].i <= Len(call.part)
  /\ PartIteration(2)
  /\ UNCHANGED << bodyVars, heap >>

NextPartSelections == FirstPartPass \/ SecondPartPass

SpecPartSelections == InitPartSelections /\ [][NextPartSelections]_vars

\* C30: a header or footer paragraph extracted under two criteria
\* selections has the same numbering label in both, and after the same
\* paragraphs the header and footer counters of the two passes are the
\* same.
C30_LabelIndependentOfCriteria ==
  call.fn = "processDocumentParagraphs" =>
    /\ \A i \in ExtractedByBoth :
         call.passes[1].records[i][1].numbering = call.passes[2].records[i][1].numbering
    /\ call.passes[2].i > Len(call.part) => call.passes[1].heap = call.passes[2].heap

====
